---- MODULE Spec2Model ----
(***************************************************************************)
(* The change-detection and delivery pipeline of src/bot.js (the current   *)
(* version of the bot, lines 314-1207): one run of the process loads the   *)
(* processed-id log file, scrapes the dashboard, keeps the rows whose id   *)
(* is not in the log, translates them, POSTs them oldest-first to the      *)
(* rotating webhooks and writes the log back.  The log file is the only    *)
(* state that survives a run; everything else is reset by StartRun.        *)
(***************************************************************************)
EXTENDS Integers, Sequences, FiniteSets, TLC

(***************************************************************************)
(* Configuration and bounds                                                *)
(***************************************************************************)
\* The three webhooks the bot insists on (exactly three, or it exits).
webhookUrls == <<"hook1", "hook2", "hook3">>

\* MAX_NEWS_MESSAGES of the processes of Spec and LiveSpec (several runs).
MaxMessages == 2

\* MAX_NEWS_MESSAGES of the process of BatchSpec (one run, a longer batch).
BatchMessages == 4

\* GEMINI_BATCH_SIZE of the modelled configuration.
geminiBatchSize == 2

\* Number of GEMINI_API_KEY_n values of the modelled configuration.
NumKeys == 1

\* Number of GEMINI_API_KEY_n values of the process of PoolSpec.
PoolKeys == 3

\* The clock of PoolSpec advances in steps of half the cooldown, MaxTicks
\* times at most.
TickMs == 1800000
MaxTicks == 3

\* splitIntoChunks is called with texts of at most MaxTextLen characters and
\* a maxLength of at most MaxCeiling.
MaxTextLen == 6

\* MAX_NEWS_MESSAGES of the run whose translations are followed text by text.
AlignMessages == 3

\* The processed set holds at most this many ids when load and save are
\* called on their own.
MaxIds == 3
MaxCeiling == 4

\* The observer counts the requests of a batch call up to this many.
MaxCounted == 10

\* A sink answers at most this many 429s to one sendDiscordMessage call.
Max429 == 2

\* formatMessage returns at most this many chunks for one item.
MaxChunks == 2

(***************************************************************************)
(* Scraped rows.  Two rows; RecA has no full tweet, RecB has one.          *)
(***************************************************************************)
RecA ==
  [time |-> "09:00", sentiment |-> "Bullish", summary |-> "sa",
   fullTweet |-> "", tickers |-> <<"AAPL", "MSFT">>, sector |-> "Tech"]

RecB ==
  [time |-> "09:05", sentiment |-> "Bearish", summary |-> "sb",
   fullTweet |-> "tb", tickers |-> <<>>, sector |-> "-"]

Records == {RecA, RecB}

\* A third row, with a full tweet of its own
RecC ==
  [time |-> "09:10", sentiment |-> "Neutral", summary |-> "sc",
   fullTweet |-> "tc", tickers |-> <<>>, sector |-> "-"]

\* What extractAllCurrentlyLoadedRows can return: the rows on the page,
\* newest first, at most n of them.  Two rows may show the same values.
Feeds(n) == UNION {[1..k -> Records] : k \in 0..n}

\* HTTP statuses a webhook answers with: accepted, backpressure, anything else.
SinkStatuses == {204, 429, 500}

\* What the dashboard answers to page.goto.
SiteStatuses == {200, 403}

(***************************************************************************)
(* Pure helpers                                                            *)
(***************************************************************************)
RECURSIVE Join(_, _)
\* Array.prototype.join
Join(seq, sep) ==
  IF Len(seq) = 0 THEN ""
  ELSE IF Len(seq) = 1 THEN seq[1]
  ELSE seq[1] \o sep \o Join(Tail(seq), sep)

\* Array.prototype.reverse
Reverse(seq) == [k \in 1..Len(seq) |-> seq[Len(seq) + 1 - k]]

\* Array.prototype.slice(from, to), 0-based, to exclusive
Slice(seq, from, to) ==
  LET hi == IF to < Len(seq) THEN to ELSE Len(seq)
  IN  IF from >= hi THEN <<>> ELSE [k \in 1..(hi - from) |-> seq[from + k]]

Range(seq) == {seq[k] : k \in 1..Len(seq)}

\* Set.prototype.add on a Set kept in insertion order
SetAdd(seq, x) == IF x \in Range(seq) THEN seq ELSE Append(seq, x)

\* new Set(array): insertion order, duplicates dropped
RECURSIVE NewSet(_)
NewSet(seq) ==
  IF Len(seq) = 0 THEN <<>>
  ELSE SetAdd(NewSet(SubSeq(seq, 1, Len(seq) - 1)), seq[Len(seq)])

\* createMessageId: the digest of the canonical string.  SHA-256 is taken as
\* injective, so the digest is represented by the string it is computed from.
createMessageId(item) ==
  Join(<<item.time, item.sentiment, item.fullTweet, item.summary,
         Join(item.tickers, ","), item.sector>>, "|")

\* The text the Translation Service returns for a text.
Translated(text) == "he:" \o text

\* JavaScript's a || b on strings
Or(a, b) == IF a # "" THEN a ELSE b

\* null, and a non-null array
Null == [isNull |-> TRUE, v |-> <<>>]
Arr(seq) == [isNull |-> FALSE, v |-> seq]

\* No exception
NoError == [from |-> "none", status |-> 0, body |-> ""]

\* No request
NoRequest == [to |-> "none", body |-> <<>>]

\* The text of a file, as its JSON tokens: punctuation, white space, strings
Punct(v) == [t |-> "punct", v |-> v]
Space(v) == [t |-> "space", v |-> v]
String(v) == [t |-> "string", v |-> v]

\* The elements as JSON.stringify(ids, null, 2) lays them out
RECURSIVE StringifyItems(_)
StringifyItems(ids) ==
  IF Len(ids) = 0 THEN <<>>
  ELSE <<Space("\n"), Space("  "), String(ids[1])>>
         \o (IF Len(ids) > 1 THEN <<Punct(",")>> ELSE <<>>)
         \o StringifyItems(Tail(ids))

\* JSON.stringify(ids, null, 2)
JSONstringify(ids) ==
  IF Len(ids) = 0 THEN <<Punct("["), Punct("]")>>
  ELSE <<Punct("[")>> \o StringifyItems(ids) \o <<Space("\n"), Punct("]")>>

\* The tokens that are not white space
NoSpace(tokens) == SelectSeq(tokens, LAMBDA tok : tok.t # "space")

\* String.prototype.trim on a text of tokens
RECURSIVE trimTokens(_)
trimTokens(tokens) ==
  IF Len(tokens) = 0 THEN tokens
  ELSE IF tokens[1].t = "space" THEN trimTokens(Tail(tokens))
  ELSE IF tokens[Len(tokens)].t = "space"
       THEN trimTokens(SubSeq(tokens, 1, Len(tokens) - 1))
  ELSE tokens

\* Fault: a parser that returns the first element only
JSONparseFirstOnly(raw) ==
  LET found == SelectSeq(raw, LAMBDA tok : tok.t = "string")
  IN  [threw |-> FALSE, isArray |-> TRUE,
       value |-> IF Len(found) = 0 THEN <<>> ELSE <<found[1].v>>]

\* JSON.parse: an array of strings, another JSON value (a string, {}), or a
\* SyntaxError
JSONparse(raw) ==
  LET toks == NoSpace(raw)
      n == Len(toks)
  IN  IF /\ n >= 2
         /\ toks[1] = Punct("[")
         /\ toks[n] = Punct("]")
         /\ n = 2 \/ n % 2 = 1
         /\ \A k \in 2..(n - 1) :
              IF k % 2 = 0 THEN toks[k].t = "string" ELSE toks[k] = Punct(",")
      THEN [threw |-> FALSE, isArray |-> TRUE,
            value |-> [k \in 1..((n - 1) \div 2) |-> toks[2 * k].v]]
      ELSE IF (n = 1 /\ toks[1].t = "string") \/ toks = <<Punct("{"), Punct("}")>>
      THEN [threw |-> FALSE, isArray |-> FALSE, value |-> <<>>]
      ELSE [threw |-> TRUE, isArray |-> FALSE, value |-> <<>>]

\* The log file: absent, or there with a text; readFileSync throws on a file
\* that is there but cannot be read
Absent == [exists |-> FALSE, readable |-> FALSE, text |-> <<>>]
Unreadable == [exists |-> TRUE, readable |-> FALSE, text |-> <<>>]
FileOf(text) == [exists |-> TRUE, readable |-> TRUE, text |-> text]

\* The file writeFileSync leaves
JsonFile(ids) == FileOf(JSONstringify(ids) \o <<Space("\n")>>)

\* Fault: the log file is not read
loadNoIds(file) == <<>>

\* Fault: every string found in the file is taken for an id
loadAnyIds(file) ==
  LET found == SelectSeq(file.text, LAMBDA tok : tok.t = "string")
  IN  [k \in 1..Len(found) |-> found[k].v]

\* loadProcessedIds: every throw inside is caught and gives []
loadProcessedIds(file) ==
  IF ~file.exists THEN <<>>
  ELSE IF ~file.readable THEN <<>>
  ELSE LET raw == trimTokens(file.text)
       IN  IF Len(raw) = 0 THEN <<>>
           ELSE LET parsed == JSONparse(raw)
                IN  IF parsed.threw THEN <<>>
                    ELSE IF parsed.isArray THEN parsed.value
                    ELSE <<>>

\* writeProcessedIds(Array.from(processedIds))
writeProcessedIds(ids) == JsonFile(ids)

\* Fault: every row the page shows is evaluated
SlicedAll(rows, limit) == rows

\* Fault: one row fewer than MAX_NEWS_MESSAGES is evaluated
SlicedShort(rows, limit) == Slice(rows, 0, limit - 1)

\* items.slice(0, maxMessages)
Sliced(rows, limit) == Slice(rows, 0, limit)

\* Fault: the rows are not checked against processedIds
NewItemsUnfiltered(rows, processed) ==
  [k \in 1..Len(rows) |-> [id |-> createMessageId(rows[k]), item |-> rows[k]]]

\* The loop that keeps the rows whose id is not in processedIds
NewItems(rows, processed) ==
  LET entries == [k \in 1..Len(rows) |-> [id |-> createMessageId(rows[k]), item |-> rows[k]]]
  IN  SelectSeq(entries, LAMBDA e : e.id \notin Range(processed))

\* Fault: the new items are left newest first
OrderedAsScraped(newItems) == newItems

\* newItems.reverse()
Ordered(newItems) == Reverse(newItems)

\* Fault: the index stops at the last webhook instead of wrapping around
SinkForClamped(i) ==
  webhookUrls[(IF i < Len(webhookUrls) THEN i ELSE Len(webhookUrls) - 1) + 1]

\* webhookUrls[i % webhookUrls.length], i 0-based
SinkFor(i) == webhookUrls[(i % Len(webhookUrls)) + 1]

\* Fault: every status from 200 up counts as success
responseOkFrom200(status) == status >= 200

\* response.ok
responseOk(status) == status >= 200 /\ status <= 299

\* Fault: 429 is not recognised
isNeverBackpressure(status) == FALSE

\* response.status === 429
isBackpressure(status) == status = 429

\* The keys GEMINI_API_KEY_1 .. GEMINI_API_KEY_n
ApiKeys(n) == [k \in 1..n |-> "key"]

\* A rateLimitedKeys Map without entries; an entry is the timestamp of the
\* mark, and 0 stands for no entry (Date.now() is never 0)
NoMarks(n) == [k \in 0..(n - 1) |-> 0]

\* The cooldown of isKeyRateLimited, in ms
Cooldown == 3600000

\* Fault: a key stays limited until more than the cooldown has passed
isKeyRateLimitedLonger(marks, t, keyIndex) ==
  marks[keyIndex] # 0 /\ ~(t - marks[keyIndex] > Cooldown)

\* isKeyRateLimited: its result ...
isKeyRateLimited(marks, t, keyIndex) ==
  marks[keyIndex] # 0 /\ ~(t - marks[keyIndex] >= Cooldown)

\* ... and the Map it leaves: an entry as old as the cooldown is deleted
afterIsKeyRateLimited(marks, t, keyIndex) ==
  IF marks[keyIndex] # 0 /\ t - marks[keyIndex] >= Cooldown
  THEN [marks EXCEPT ![keyIndex] = 0]
  ELSE marks

\* Fault: the next key of the cycle is taken, limited or not
getNextKeyInCycle(cur, marks, t, n) ==
  [keyIndex |-> cur, currentKeyIndex |-> (cur + 1) % n, rateLimitedKeys |-> marks]

\* findAvailableKey with currentKeyIndex = cur, n keys, at time t: the key
\* it returns, and the currentKeyIndex and rateLimitedKeys it leaves
findAvailableKey(cur, marks, t, n) ==
  LET free == {a \in 0..(n - 1) : ~isKeyRateLimited(marks, t, (cur + a) % n)}
  IN  IF free # {}
      THEN LET attempts == CHOOSE a \in free : \A b \in free : a <= b
               keyIndex == (cur + attempts) % n
           IN  [keyIndex |-> keyIndex,
                currentKeyIndex |-> (keyIndex + 1) % n,
                rateLimitedKeys |-> afterIsKeyRateLimited(marks, t, keyIndex)]
      ELSE [keyIndex |-> 0, currentKeyIndex |-> 1 % n, rateLimitedKeys |-> marks]

\* Fault: the key at the cursor is taken for the one that failed
failedKeyIndexAtCursor(cur, n) == cur % n

\* The key translateChunk takes for the one that failed
failedKeyIndex(cur, n) == (cur - 1 + n) % n

\* markKeyAsRateLimited, called unless the key is marked already
markKeyAsRateLimited(marks, t, keyIndex) ==
  IF isKeyRateLimited(marks, t, keyIndex)
  THEN marks
  ELSE [marks EXCEPT ![keyIndex] = t]

\* geminiApiKeys.every((_, idx) => isKeyRateLimited(idx)) stops at the first
\* key that is not limited, whose entry it deletes if it is old enough
afterEvery(marks, t, n) ==
  LET free == {k \in 0..(n - 1) : ~isKeyRateLimited(marks, t, k)}
  IN  IF free = {} THEN marks
      ELSE afterIsKeyRateLimited(marks, t, CHOOSE k \in free : \A j \in free : k <= j)

\* The rate-limit branch of the catch block of translateChunk: the Map it leaves
afterRateLimitError(cur, marks, t, n) ==
  afterEvery(markKeyAsRateLimited(marks, t, failedKeyIndex(cur, n)), t, n)

\* Errors a generateContent call or the parsing of its answer ends with.
\* The message is kept as its words.
ErrRateLimit == [status |-> 429, message |-> <<"429", "Too", "Many", "Requests">>]
ErrQuota == [status |-> 0, message |-> <<"Quota", "exceeded">>]
ErrOverloaded == [status |-> 503, message |-> <<"The", "model", "is", "overloaded">>]
ErrUnavailableQuota ==
  [status |-> 503, message |-> <<"Service", "Unavailable", "quota", "exceeded">>]
ErrCount ==
  [status |-> 0, message |-> <<"Gemini", "returned", "unexpected", "translation", "count.">>]
NoGeminiError == [status |-> 0, message |-> <<>>]

GeminiErrors == {ErrRateLimit, ErrQuota, ErrOverloaded, ErrUnavailableQuota, ErrCount}

\* String.prototype.toLowerCase on the words of the messages
LowerCase(word) ==
  CASE word = "Too" -> "too"
    [] word = "Many" -> "many"
    [] word = "Requests" -> "requests"
    [] word = "Quota" -> "quota"
    [] word = "Service" -> "service"
    [] word = "Unavailable" -> "unavailable"
    [] word = "The" -> "the"
    [] word = "Gemini" -> "gemini"
    [] OTHER -> word

toLowerCase(msg) == [k \in 1..Len(msg) |-> LowerCase(msg[k])]

\* String.prototype.includes, on words
includes(msg, phrase) ==
  \E k \in 1..Len(msg) :
    /\ k + Len(phrase) - 1 <= Len(msg)
    /\ SubSeq(msg, k, k + Len(phrase) - 1) = phrase

\* isGeminiRateLimitError
isGeminiRateLimitError(err) ==
  \/ includes(err.message, <<"429">>)
  \/ includes(toLowerCase(err.message), <<"too", "many", "requests">>)
  \/ includes(toLowerCase(err.message), <<"quota">>)

\* isGeminiServiceError
isGeminiServiceError(err) ==
  \/ err.status = 503
  \/ err.status = 500
  \/ includes(toLowerCase(err.message), <<"overloaded">>)
  \/ includes(toLowerCase(err.message), <<"service", "unavailable">>)

\* Fault: one attempt more per key
maxAttemptsOfFour(keys) == Len(keys) * 4

\* geminiApiKeys.length * 3
maxAttempts(keys) == Len(keys) * 3

\* ordered.map((e) => e.item.summary)
SummariesOf(ord) == [k \in 1..Len(ord) |-> ord[k].item.summary]

\* ordered.map((e) => e.item.fullTweet).filter(Boolean)
FullTweetsOf(ord) ==
  SelectSeq([k \in 1..Len(ord) |-> ord[k].item.fullTweet], LAMBDA t : t # "")

\* array[idx] for a 0-based idx, in a place where undefined counts as ''
ElementAt(array, idx) == IF idx + 1 \in DOMAIN array THEN array[idx + 1] ELSE ""

\* Fault: the full-tweet translations are read at the entry's position
FullTweetIndexByPosition(ord, k) == k - 1

\* Number of entries before position k (1-based) that have a full tweet
FullTweetIndex(ord, k) == Cardinality({j \in 1..(k - 1) : ord[j].item.fullTweet # ""})

\* Fault: the id of an entry is computed again from the translated item
ApplyTranslationsRehashed(ord, ts, tf) ==
  [k \in 1..Len(ord) |->
     LET e == ord[k]
         s == IF ts.isNull THEN e.item.summary
              ELSE Or(ElementAt(ts.v, k - 1), e.item.summary)
         f == IF ~tf.isNull /\ e.item.fullTweet # ""
              THEN Or(ElementAt(tf.v, FullTweetIndex(ord, k)), e.item.fullTweet)
              ELSE e.item.fullTweet
         item == [e.item EXCEPT !.summary = s, !.fullTweet = f]
     IN  [id |-> createMessageId(item), item |-> item]]

\* The two loops that overwrite summary and fullTweet with the translations
ApplyTranslations(ord, ts, tf) ==
  [k \in 1..Len(ord) |->
     LET e == ord[k]
         s == IF ts.isNull THEN e.item.summary
              ELSE Or(ElementAt(ts.v, k - 1), e.item.summary)
         f == IF ~tf.isNull /\ e.item.fullTweet # ""
              THEN Or(ElementAt(tf.v, FullTweetIndex(ord, k)), e.item.fullTweet)
              ELSE e.item.fullTweet
     IN  [e EXCEPT !.item = [e.item EXCEPT !.summary = s, !.fullTweet = f]]]

\* The characters of the texts: two letters, the space and the newline
Chars == {"a", "b", " ", "\n"}

Texts(n) == UNION {[1..k -> Chars] : k \in 0..n}

\* White space as String.prototype.trim sees it
IsSpace(c) == c \in {" ", "\n"}

RECURSIVE trimStart(_)
trimStart(str) ==
  IF Len(str) = 0 THEN str
  ELSE IF IsSpace(str[1]) THEN trimStart(Tail(str))
  ELSE str

RECURSIVE trimEnd(_)
trimEnd(str) ==
  IF Len(str) = 0 THEN str
  ELSE IF IsSpace(str[Len(str)]) THEN trimEnd(SubSeq(str, 1, Len(str) - 1))
  ELSE str

\* String.prototype.trim
trim(str) == trimEnd(trimStart(str))

\* String.prototype.substring(from, to), 0-based, to exclusive
substring(str, from, to) == Slice(str, from, to)

\* String.prototype.lastIndexOf(ch, from), 0-based, -1 if there is none
lastIndexOf(str, ch, from) ==
  LET at == {k \in 0..(Len(str) - 1) : k <= from /\ str[k + 1] = ch}
  IN  IF at = {} THEN -1 ELSE CHOOSE k \in at : \A j \in at : j <= k

\* Fault: the cut is made one character after maxLength, whatever is there
splitIndexPastLimit(remaining, limit) == limit + 1

\* splitIndex of one round of the loop of splitIntoChunks: after the last
\* newline, or else the last space, found beyond 0.7 * maxLength, or else
\* at maxLength
splitIndexOf(remaining, limit) ==
  LET lastNewline == lastIndexOf(remaining, "\n", limit)
      lastSpace == lastIndexOf(remaining, " ", limit)
  IN  IF 10 * lastNewline > 7 * limit THEN lastNewline + 1
      ELSE IF 10 * lastSpace > 7 * limit THEN lastSpace + 1
      ELSE limit

\* Fault: the character at the cut is dropped
remainingAfterSkipping(remaining, splitIndex) ==
  trim(substring(remaining, splitIndex + 1, Len(remaining)))

\* remaining.substring(splitIndex).trim()
remainingAfter(remaining, splitIndex) ==
  trim(substring(remaining, splitIndex, Len(remaining)))

\* The while loop of splitIntoChunks
RECURSIVE splitLoop(_, _)
splitLoop(remaining, limit) ==
  IF Len(remaining) = 0 THEN <<>>
  ELSE IF Len(remaining) <= limit THEN <<remaining>>
  ELSE LET splitIndex == splitIndexOf(remaining, limit)
       IN  <<trim(substring(remaining, 0, splitIndex))>>
             \o splitLoop(remainingAfter(remaining, splitIndex), limit)

\* splitIntoChunks
splitIntoChunks(str, limit) ==
  IF Len(str) <= limit THEN <<str>> ELSE splitLoop(str, limit)

\* formatMessage: the chunks of the item's message.  The characters of the
\* message are not carried by this model, so the number n of chunks that
\* splitIntoChunks cuts is an input.
formatMessage(item, n) == [c \in 1..n |-> [item |-> item, piece |-> c, pieces |-> n]]

\* The content POSTed for chunk chunkIdx (0-based) of the message
chunkContent(chunks, chunkIdx) ==
  IF Len(chunks) > 1
  THEN [part |-> chunkIdx + 1, parts |-> Len(chunks), chunk |-> chunks[chunkIdx + 1]]
  ELSE [part |-> 0, parts |-> 0, chunk |-> chunks[chunkIdx + 1]]

(***************************************************************************)
(* formatMessage on the characters of the message.  A text is a sequence   *)
(* of UTF-16 code units; a unit outside ASCII is written by its name.      *)
(***************************************************************************)
LowerLetters ==
  <<"a", "b", "c", "d", "e", "f", "g", "h", "i", "j", "k", "l", "m", "n",
      "o", "p", "q", "r", "s", "t", "u", "v", "w", "x", "y", "z">>

UpperLetters ==
  <<"A", "B", "C", "D", "E", "F", "G", "H", "I", "J", "K", "L", "M", "N",
      "O", "P", "Q", "R", "S", "T", "U", "V", "W", "X", "Y", "Z">>

DigitChars == <<"0", "1", "2", "3", "4", "5", "6", "7", "8", "9">>

\* String.prototype.toUpperCase, toLowerCase on one unit
toUpperCaseChar(c) ==
  IF \E k \in 1..26 : LowerLetters[k] = c
  THEN UpperLetters[CHOOSE k \in 1..26 : LowerLetters[k] = c]
  ELSE c

toLowerCaseChar(c) ==
  IF \E k \in 1..26 : UpperLetters[k] = c
  THEN LowerLetters[CHOOSE k \in 1..26 : UpperLetters[k] = c]
  ELSE c

toUpperCaseText(str) == [k \in 1..Len(str) |-> toUpperCaseChar(str[k])]

\* /word/i.test(str)
testIgnoreCase(str, word) ==
  \E k \in 0..(Len(str) - Len(word)) :
    \A j \in 1..Len(word) : toLowerCaseChar(str[k + j]) = word[j]

\* Array.prototype.join on texts
RECURSIVE JoinText(_, _)
JoinText(texts, sep) ==
  IF Len(texts) = 0 THEN <<>>
  ELSE IF Len(texts) = 1 THEN texts[1]
  ELSE texts[1] \o sep \o JoinText(Tail(texts), sep)

\* The decimal digits of a number n >= 0, as template literals render it
RECURSIVE NumberText(_)
NumberText(n) ==
  IF n < 10 THEN <<DigitChars[n + 1]>>
  ELSE NumberText(n \div 10) \o <<DigitChars[(n % 10) + 1]>>

\* The placeholder dash
Dash == <<"EM DASH">>

\* /^[A-Z0-9.\-]{1,12}$/.test(sym)
isTickerSymbol(sym) ==
  /\ Len(sym) \in 1..12
  /\ \A k \in 1..Len(sym) :
       sym[k] \in Range(UpperLetters) \cup Range(DigitChars) \cup {".", "-"}

\* The loop of buildTradingViewLinks that fills cleaned
RECURSIVE cleanedTickers(_, _)
cleanedTickers(tickers, cleaned) ==
  IF Len(tickers) = 0 THEN cleaned
  ELSE LET sym == toUpperCaseText(trim(tickers[1]))
       IN  cleanedTickers(Tail(tickers),
             IF Len(sym) = 0 \/ ~isTickerSymbol(sym) \/ sym \in Range(cleaned)
             THEN cleaned
             ELSE Append(cleaned, sym))

\* The link of one symbol; encodeURIComponent leaves A-Z, 0-9, '.', '-' alone
tickerLink(sym) ==
  <<"[", "$">> \o sym
    \o <<"]", "(", "<", "h", "t", "t", "p", "s", ":", "/", "/", "w", "w", "w",
        ".", "t", "r", "a", "d", "i", "n", "g", "v", "i", "e", "w", ".", "c",
        "o", "m", "/", "c", "h", "a", "r", "t", "/", "?", "s", "y", "m", "b",
        "o", "l", "=">>
    \o sym \o <<">", ")">>

\* buildTradingViewLinks
buildTradingViewLinks(tickers) ==
  LET cleaned == cleanedTickers(tickers, <<>>)
  IN  IF Len(tickers) = 0 \/ Len(cleaned) = 0 THEN Dash
      ELSE JoinText([k \in 1..Len(cleaned) |-> tickerLink(cleaned[k])],
                    <<",", " ">>)

\* SITE_URL
siteUrl ==
  <<"h", "t", "t", "p", "s", ":", "/", "/", "w", "w", "w", ".", "t", "i",
      "p", "r", "a", "n", "k", "s", ".", "c", "o", "m", "/", "t", "r", "u",
      "m", "p", "-", "d", "a", "s", "h", "b", "o", "a", "r", "d">>

\* a || b on texts
OrText(a, b) == IF Len(a) > 0 THEN a ELSE b

NotAvailable == <<"N", "/", "A">>

\* esc of formatMessage: String(s ?? '').trim()
esc(str) == trim(str)

\* sentimentEmoji of formatMessage: green, red, white circle or blue square
sentimentEmojiOf(sentiment) ==
  IF testIgnoreCase(sentiment, <<"b", "u", "l", "l", "i", "s", "h">>)
  THEN <<"D83D", "DFE2">>
  ELSE IF testIgnoreCase(sentiment, <<"b", "e", "a", "r", "i", "s", "h">>)
  THEN <<"D83D", "DD34">>
  ELSE IF testIgnoreCase(sentiment, <<"n", "e", "u", "t", "r", "a", "l">>)
  THEN <<"26AA">>
  ELSE <<"D83D", "DFE6">>

\* baseMessage of formatMessage: lines.join('\n')
baseMessageOf(item) ==
  LET time == OrText(esc(item.time), NotAvailable)
      sentiment == OrText(esc(item.sentiment), NotAvailable)
      summary == OrText(esc(item.summary), NotAvailable)
      fullTweetRaw == esc(item.fullTweet)
      fullTweet == IF Len(fullTweetRaw) > 0 /\ fullTweetRaw # <<"0", "0">>
                   THEN fullTweetRaw ELSE <<>>
      sector == esc(item.sector)
      tickersLinks == buildTradingViewLinks(item.tickers)
      head == (IF Len(tickersLinks) > 0 /\ tickersLinks # Dash
               THEN <<tickersLinks>> ELSE <<>>)
              \o (IF Len(sector) > 0 /\ sector # Dash
                  THEN <<<<"*", "*", "S", "e", "c", "t", "o", "r", ":", "*", "*", " ">>
                         \o sector>>
                  ELSE <<>>)
      lines == head
               \o (IF Len(head) > 0 THEN << <<>> >> ELSE <<>>)
               \o << <<"BACKTICK">> \o time \o <<"BACKTICK", " ", "(">>
                       \o sentimentEmojiOf(sentiment) \o <<" ", "*", "*">>
                       \o sentiment \o <<"*", "*", ")">>,
                     summary,
                     <<>>,
                     <<"D83D", "DCAC", " ">> \o fullTweet,
                     <<>>,
                     <<"<">> \o siteUrl \o <<">">> >>
  IN  JoinText(lines, <<"\n">>)

\* finalMessage of formatMessage: [baseMessage, tag].filter(Boolean).join('\n')
finalMessageOf(item, tagText) ==
  JoinText(SelectSeq(<<baseMessageOf(item), tagText>>, LAMBDA t : Len(t) > 0),
           <<"\n">>)

\* The ceiling formatMessage passes to splitIntoChunks
MessageCeiling == 1990

\* formatMessage, as the chunks of characters it returns
formatMessageText(item, tagText) ==
  splitIntoChunks(finalMessageOf(item, tagText), MessageCeiling)

\* The marker **[Part i/N]** and a newline, put before a chunk of a split message
PartMarker(part, parts) ==
  <<"*", "*", "[", "P", "a", "r", "t", " ">> \o NumberText(part) \o <<"/">>
    \o NumberText(parts) \o <<"]", "*", "*", "\n">>

\* chunkContent of run(), as characters
chunkContentText(messageParts, chunkIdx) ==
  IF Len(messageParts) > 1
  THEN PartMarker(chunkIdx + 1, Len(messageParts)) \o messageParts[chunkIdx + 1]
  ELSE messageParts[chunkIdx + 1]

(***************************************************************************)
(* State                                                                   *)
(***************************************************************************)
VARIABLES
  logFile,              \* the file at LOG_FILE
  maxMessages,          \* MAX_NEWS_MESSAGES of the running process
  pc,                   \* where the process is: translate, translateWait, post,
                        \* postWait, done (run() resolved), failed (run()
                        \* rejected); idle when no process is running
  exitCode,             \* exit code of the last process that ended, -1 if none
  error,                \* what the rejected run() promise carries
  items,                \* rows returned by extractAllCurrentlyLoadedRows
  processedIds,         \* the Set of run(), in insertion order
  ordered,              \* the entries {id, item} to deliver, oldest first
  stage,                \* which translateSummariesWithGemini call is running
  summaries,            \* its argument
  offset,               \* its loop index i
  out,                  \* its array out
  attemptCount,         \* attemptCount of the running translateChunk
  translatedSummaries,  \* result of the first call
  translatedFullTweets, \* result of the second call
  i,                    \* index of the entry being sent
  messageChunks,        \* formatMessage(entry.item)
  chunkIndex,           \* index of the chunk being sent
  outstanding,          \* requests sent and not yet answered
  \* ---- observations of the run, not read by the program ----
  feed,                 \* rows the page showed to the last run that read it
  startFile,            \* logFile when the run started
  writes,               \* number of writeFileSync calls of the run
  posts,                \* POSTs made by the current sendDiscordMessage call
  sleeps,               \* sleeps made by the current sendDiscordMessage call
  tooMany,              \* 429 answers received by the current call
  sendResult,           \* pending, returned or raised
  lastStatus,           \* status of the last answer of a sink
  sent,                 \* the first POST of the current sendDiscordMessage call
  got,                  \* pieces of the current message the sink has accepted
  delivered,            \* ids of the messages accepted whole in this run, in order
  postedNow,            \* ids with a chunk POSTed in this run
  postedBefore,         \* ids with a chunk POSTed in an earlier run
  owed,                 \* ids that were new in an aborted run since the last success
  repeat,               \* this run is fed the rows of the previous, successful run
  \* ---- the credential pool and the clock ----
  geminiApiKeys,        \* the configured keys
  currentKeyIndex,      \* cursor of the key cycle
  rateLimitedKeys,      \* keyIndex -> time of its rate-limit mark, 0 if none
  now,                  \* Date.now()
  \* ---- observations of the translation calls, not read by the program ----
  usedKey,              \* key returned by the last findAvailableKey, -1 if none
  cursorBefore,         \* currentKeyIndex when it was called
  marksBefore,          \* rateLimitedKeys when it was called
  askedAt,              \* time when it was called
  requests,             \* generateContent calls of the running batch call
  groupRequests,        \* generateContent calls for the running group
  lastError,            \* error of the last failed request and its batch call
  marked,               \* keys marked while that error was handled
  failedCalls,          \* batch calls of this run in which a request failed
                        \* for good or the attempts ran out
  retryBody,            \* body of the last 429 answer to the current call
  waitMs,               \* what sendDiscordMessage slept after it, -1 if none
  \* ---- a function of the program called on its own ----
  fnPc,                 \* "none", or where the call is
  text,                 \* splitIntoChunks: its text, as a sequence of characters
  maxLength,            \* splitIntoChunks: its maxLength
  chunks,               \* splitIntoChunks: what it returned
  stored,               \* content of the log file after the first save
  tag,                  \* DISCORD_TAG, as characters
  entryItem,            \* formatMessage: its item, the fields as characters
  contents,             \* the contents POSTed for entryItem so far
  pause,                \* ms the run slept since the Translation Service's last
                        \* answer; -1 outside the translation stage
  slept                 \* ms the send loop slept since the last accepted POST

progVars ==
  <<logFile, maxMessages, pc, exitCode, error, items, processedIds, ordered, stage, summaries,
    offset, out, attemptCount, translatedSummaries, translatedFullTweets, i,
    messageChunks, chunkIndex, outstanding>>

obsVars ==
  <<feed, startFile, writes, posts, sleeps, tooMany, sendResult, lastStatus, sent,
    got, delivered, postedNow, postedBefore, owed, repeat>>

poolVars == <<geminiApiKeys, currentKeyIndex, rateLimitedKeys, now>>

trObs ==
  <<usedKey, cursorBefore, marksBefore, askedAt, requests, groupRequests,
    lastError, marked>>

delayObs == <<retryBody, waitMs>>

paceObs == <<pause, slept>>

fmtVars == <<tag, entryItem, contents>>

fnVars == <<fnPc, text, maxLength, chunks, stored, fmtVars>>

vars ==
  <<progVars, obsVars, poolVars, trObs, failedCalls, delayObs, fnVars, paceObs>>

trVars == <<stage, summaries, offset, out, attemptCount>>

Running == pc \in {"translate", "translateWait", "post", "postWait"}
Ended == pc \in {"done", "failed"}

\* The memory of a process that is not running
NoProcess ==
  /\ error' = NoError
  /\ items' = <<>>
  /\ processedIds' = <<>>
  /\ ordered' = <<>>
  /\ stage' = "none" /\ summaries' = <<>> /\ offset' = 0
  /\ out' = <<>> /\ attemptCount' = 0
  /\ translatedSummaries' = Null
  /\ translatedFullTweets' = Null
  /\ i' = 0 /\ messageChunks' = <<>> /\ chunkIndex' = 0
  /\ outstanding' = <<>>
  /\ currentKeyIndex' = 0
  /\ rateLimitedKeys' = NoMarks(Len(geminiApiKeys))

\* No translation call has been observed
NoCallError == [error |-> NoGeminiError, call |-> "none"]

TrObsReset ==
  /\ usedKey' = -1
  /\ cursorBefore' = 0
  /\ marksBefore' = NoMarks(Len(geminiApiKeys))
  /\ askedAt' = 0
  /\ requests' = 0
  /\ groupRequests' = 0
  /\ lastError' = NoCallError
  /\ marked' = {}

\* A 2xx status, as the sink means it
Accepted2xx(status) == status \in 200..299

\* A 429 answer not yet seen
NoBody == [json |-> FALSE, has |-> FALSE, micros |-> 0]

\* No function is called on its own
\* An item whose fields are all empty
NoItem ==
  [time |-> <<>>, sentiment |-> <<>>, summary |-> <<>>, fullTweet |-> <<>>,
   tickers |-> <<>>, sector |-> <<>>]

\* formatMessage is not followed character by character
FmtIdle ==
  /\ tag = <<>>
  /\ entryItem = NoItem
  /\ contents = <<>>

FnIdle ==
  /\ fnPc = "none"
  /\ text = <<>>
  /\ maxLength = 0
  /\ chunks = <<>>
  /\ stored = <<>>
  /\ FmtIdle

InitFrom(files, limit, keys) ==
  /\ pause = -1
  /\ slept = 0
  /\ retryBody = NoBody
  /\ waitMs = -1
  /\ geminiApiKeys = ApiKeys(keys)
  /\ currentKeyIndex = 0
  /\ rateLimitedKeys = NoMarks(keys)
  /\ now = 1
  /\ usedKey = -1
  /\ cursorBefore = 0
  /\ marksBefore = NoMarks(keys)
  /\ askedAt = 0
  /\ requests = 0
  /\ groupRequests = 0
  /\ lastError = NoCallError
  /\ marked = {}
  /\ failedCalls = {}
  /\ logFile \in files
  /\ maxMessages = limit
  /\ pc = "idle"
  /\ exitCode = -1
  /\ error = NoError
  /\ items = <<>>
  /\ processedIds = <<>>
  /\ ordered = <<>>
  /\ stage = "none"
  /\ summaries = <<>>
  /\ offset = 0
  /\ out = <<>>
  /\ attemptCount = 0
  /\ translatedSummaries = Null
  /\ translatedFullTweets = Null
  /\ i = 0
  /\ messageChunks = <<>>
  /\ chunkIndex = 0
  /\ outstanding = <<>>
  /\ feed = <<>>
  /\ startFile = logFile
  /\ writes = 0
  /\ posts = 0
  /\ sleeps = 0
  /\ tooMany = 0
  /\ sendResult = "none"
  /\ lastStatus = 0
  /\ sent = NoRequest
  /\ got = <<>>
  /\ delivered = <<>>
  /\ postedNow = {}
  /\ postedBefore = {}
  /\ owed = {}
  /\ repeat = FALSE

(***************************************************************************)
(* Steps of run() that several actions end with                            *)
(***************************************************************************)
\* The delivery loop reaches entry idx (0-based) of ord: format it and call
\* sendDiscordMessage for its first chunk.  Sets i, chunkIndex, messageChunks, pc.
BeginUnit(ord, idx) ==
  /\ i' = idx
  /\ chunkIndex' = 0
  /\ \E n \in 1..MaxChunks : messageChunks' = formatMessage(ord[idx + 1].item, n)
  /\ pc' = "post"

\* writeProcessedIds(Array.from(processedIds)); the run reports success.
\* Sets logFile, writes, pc, exitCode.
Finish(processed) ==
  /\ logFile' = writeProcessedIds(processed)
  /\ writes' = writes + 1
  /\ pc' = "done"
  /\ exitCode' = 0

\* Fault: the log file is written on the way out of a failing run
AbortSaving(err) ==
  /\ error' = err
  /\ pc' = "failed"
  /\ exitCode' = 1
  /\ logFile' = writeProcessedIds(processedIds)
  /\ writes' = writes + 1

\* An exception leaves run(): the promise rejects and the process exits 1.
\* Sets error, pc, exitCode, logFile, writes.
Abort(err) ==
  /\ error' = err
  /\ pc' = "failed"
  /\ exitCode' = 1
  /\ UNCHANGED <<logFile, writes>>

\* Fault: the translations of the groups before the failure are returned
FallbackPartial(partial) ==
  Arr([k \in 1..Len(summaries) |-> IF k <= Len(partial) THEN partial[k] ELSE ""])

\* The catch block of translateSummariesWithGemini: out is dropped, null returned
Fallback(partial) == Null

\* translateSummariesWithGemini is called with texts.  Sets trVars, pc.
BeginTranslate(stg, texts) ==
  /\ stage' = stg
  /\ summaries' = texts
  /\ offset' = 0
  /\ out' = <<>>
  /\ attemptCount' = 0
  /\ pc' = "translate"

\* Both translation calls are over: apply the translations, start sending.
\* Sets ordered, i, chunkIndex, messageChunks, pc, trVars.
ApplyAndDeliver(ts, tf) ==
  /\ ordered' = ApplyTranslations(ordered, ts, tf)
  /\ BeginUnit(ordered', 0)
  /\ UNCHANGED trVars

\* Fault: the sending starts when the summaries call returns; the full
\* tweets are not waited for
TranslateReturnsEarly(result) ==
  /\ translatedSummaries' = result
  /\ translatedFullTweets' = Null
  /\ ApplyAndDeliver(result, Null)
  /\ UNCHANGED <<requests, groupRequests>>

\* The running translateSummariesWithGemini call returns result.  Sets
\* translatedSummaries, translatedFullTweets and what ApplyAndDeliver sets.
TranslateReturns(result) ==
  IF stage = "summaries"
  THEN /\ translatedSummaries' = result
       /\ translatedFullTweets' = Null
       /\ IF Len(FullTweetsOf(ordered)) > 0
          THEN /\ BeginTranslate("fullTweets", FullTweetsOf(ordered))
               /\ requests' = 0
               /\ groupRequests' = 0
               /\ UNCHANGED <<ordered, i, messageChunks, chunkIndex>>
          ELSE /\ ApplyAndDeliver(result, Null)
               /\ UNCHANGED <<requests, groupRequests>>
  ELSE /\ translatedFullTweets' = result
       /\ UNCHANGED <<translatedSummaries, requests, groupRequests>>
       /\ ApplyAndDeliver(translatedSummaries, result)

(***************************************************************************)
(* Actions                                                                 *)
(***************************************************************************)

\* A process starts with MAX_NEWS_MESSAGES = limit: run() up to its first
\* request to the Translation Service (or to its end, when nothing is new or
\* the dashboard fails).  feeds is what the page can show.
StartRun(limit, feeds) ==
  /\ pause' = -1
  /\ slept' = 0
  /\ UNCHANGED <<delayObs, fnVars>>
  /\ pc = "idle"
  /\ UNCHANGED <<poolVars, trObs, failedCalls>>
  /\ \E rows \in feeds, site \in SiteStatuses :
       LET processed == NewSet(loadProcessedIds(logFile))
           ord == Ordered(NewItems(Sliced(rows, limit), processed))
       IN  /\ maxMessages' = limit
           /\ processedIds' = processed
           /\ outstanding' = <<>>
           /\ translatedSummaries' = Null
           /\ translatedFullTweets' = Null
           /\ i' = 0 /\ messageChunks' = <<>> /\ chunkIndex' = 0
           /\ UNCHANGED <<startFile, posts, sleeps, tooMany, sendResult, lastStatus,
                          sent, got, delivered, postedNow, postedBefore, owed>>
           /\ IF site >= 400
              THEN \* throw new Error(`Site responded with HTTP ${status}.`)
                   /\ error' = [from |-> "site", status |-> site, body |-> ""]
                   /\ pc' = "failed"
                   /\ exitCode' = 1
                   /\ items' = <<>>
                   /\ ordered' = <<>>
                   /\ feed' = <<>>
                   /\ repeat' = FALSE
                   /\ stage' = "none" /\ summaries' = <<>> /\ offset' = 0
                   /\ out' = <<>> /\ attemptCount' = 0
                   /\ UNCHANGED <<logFile, writes>>
              ELSE /\ items' = rows
                   /\ ordered' = ord
                   /\ feed' = rows
                   /\ repeat' = (exitCode = 0 /\ rows = feed)
                   /\ error' = NoError
                   /\ IF Len(ord) > 0
                      THEN /\ BeginTranslate("summaries", SummariesOf(ord))
                           /\ UNCHANGED <<logFile, writes, exitCode>>
                      ELSE \* nothing new: both loops are empty, the log is written
                           /\ Finish(processed)
                           /\ stage' = "none" /\ summaries' = <<>> /\ offset' = 0
                           /\ out' = <<>> /\ attemptCount' = 0

\* The process ends: exit code 0 after run() resolved, 1 after it rejected.
\* Its memory is gone; the log file stays.
Exit ==
  /\ pause' = -1
  /\ slept' = 0
  /\ UNCHANGED <<delayObs, fnVars>>
  /\ pc \in {"done", "failed"}
  /\ pc' = "idle"
  /\ NoProcess
  /\ startFile' = logFile
  /\ writes' = 0
  /\ posts' = 0 /\ sleeps' = 0 /\ tooMany' = 0
  /\ sendResult' = "none"
  /\ lastStatus' = 0
  /\ sent' = NoRequest
  /\ got' = <<>>
  /\ delivered' = <<>>
  /\ postedNow' = {}
  /\ postedBefore' = postedBefore \cup postedNow
  /\ owed' = IF pc = "done" THEN {} ELSE owed
  /\ repeat' = FALSE
  /\ TrObsReset
  /\ failedCalls' = {}
  /\ UNCHANGED <<logFile, maxMessages, exitCode, feed, geminiApiKeys, now>>

\* GEMINI_MIN_DELAY_MS, at its default
geminiMinDelayMs == 5000

\* if (... && geminiMinDelayMs > 0) await sleep(geminiMinDelayMs)
sleepAfterGroup(delay) == IF delay > 0 THEN delay ELSE 0

\* Fault: sleep(300) also after the last chunk of a message
sleptAfterEveryChunk(chunkIdx, nChunks, idx, nEntries) ==
  300 + (IF chunkIdx >= nChunks - 1 /\ idx < nEntries - 1 THEN 450 ELSE 0)

\* The sleeps of the send loop after an accepted chunk: sleep(300) when a
\* chunk of the message follows, sleep(450) when another entry follows
sleptAfterChunk(chunkIdx, nChunks, idx, nEntries) ==
  (IF chunkIdx < nChunks - 1 THEN 300 ELSE 0)
    + (IF chunkIdx >= nChunks - 1 /\ idx < nEntries - 1 THEN 450 ELSE 0)

\* The group of texts translateChunk is called with
Group == Slice(summaries, offset, offset + geminiBatchSize)

\* translateChunk sends its request (generateContent) ...
GeminiRequest ==
  /\ pause' = 0
  /\ UNCHANGED slept
  /\ UNCHANGED <<delayObs, fnVars>>
  /\ pc = "translate"
  /\ attemptCount < maxAttempts(geminiApiKeys)
  /\ LET found == findAvailableKey(currentKeyIndex, rateLimitedKeys, now,
                                   Len(geminiApiKeys))
     IN  /\ currentKeyIndex' = found.currentKeyIndex
         /\ rateLimitedKeys' = found.rateLimitedKeys
         /\ usedKey' = found.keyIndex
  /\ cursorBefore' = currentKeyIndex
  /\ marksBefore' = rateLimitedKeys
  /\ askedAt' = now
  /\ requests' = IF requests < MaxCounted THEN requests + 1 ELSE requests
  /\ groupRequests' =
       IF groupRequests < MaxCounted THEN groupRequests + 1 ELSE groupRequests
  /\ outstanding' = Append(outstanding, [to |-> "gemini", body |-> Group])
  /\ pc' = "translateWait"
  /\ UNCHANGED <<logFile, maxMessages, exitCode, error, items, processedIds,
                 ordered, trVars, translatedSummaries, translatedFullTweets, i,
                 messageChunks, chunkIndex, obsVars, geminiApiKeys, now,
                 lastError, marked, failedCalls>>

\* ... or throws because attemptCount reached maxAttempts: the batch call
\* catches it and returns null
GeminiGiveUp ==
  /\ UNCHANGED paceObs
  /\ UNCHANGED <<delayObs, fnVars>>
  /\ pc = "translate"
  /\ attemptCount >= maxAttempts(geminiApiKeys)
  /\ TranslateReturns(Fallback(out))
  /\ failedCalls' = failedCalls \cup {stage}
  /\ UNCHANGED <<logFile, maxMessages, exitCode, error, items, processedIds,
                 outstanding, obsVars, poolVars, usedKey, cursorBefore,
                 marksBefore, askedAt, lastError, marked>>

\* Fault: the retry does not count the attempt
SameAttempt(n) == n

\* attemptCount of the retry
NextAttempt(n) == n + 1

\* The translations array the Translation Service can answer a group with:
\* one translation per text, in order; with blank, a translation may also be
\* text that trim() leaves empty
Answers(group, blank) ==
  {answer \in [1..Len(group) -> {Translated(group[k]) : k \in 1..Len(group)}
                                   \cup {""}] :
     \A k \in 1..Len(group) :
       \/ answer[k] = Translated(group[k])
       \/ blank /\ answer[k] = ""}

\* The Translation Service answers with the translations of the group
GeminiOk(blank) ==
  /\ pause' = IF offset + geminiBatchSize < Len(summaries)
              THEN sleepAfterGroup(geminiMinDelayMs) ELSE 0
  /\ UNCHANGED slept
  /\ UNCHANGED <<delayObs, fnVars>>
  /\ pc = "translateWait"
  /\ outstanding' = <<>>
  /\ \E translated \in Answers(Group, blank) :
         IF offset + geminiBatchSize < Len(summaries)
         THEN \* sleep(geminiMinDelayMs), next group
              /\ out' = out \o translated
              /\ offset' = offset + geminiBatchSize
              /\ attemptCount' = 0
              /\ pc' = "translate"
              /\ groupRequests' = 0
              /\ UNCHANGED <<stage, summaries, ordered, translatedSummaries,
                             translatedFullTweets, i, messageChunks, chunkIndex,
                             requests>>
         ELSE TranslateReturns(Arr(out \o translated))
  /\ UNCHANGED <<logFile, maxMessages, exitCode, error, items, processedIds, obsVars,
                 poolVars, usedKey, cursorBefore, marksBefore, askedAt, lastError,
                 marked, failedCalls>>

\* The request fails with a rate-limit error: sleep(1000), retry the group
GeminiRateLimited ==
  /\ pause' = 1000
  /\ UNCHANGED slept
  /\ UNCHANGED <<delayObs, fnVars>>
  /\ pc = "translateWait"
  /\ \E err \in GeminiErrors :
       /\ isGeminiRateLimitError(err)
       /\ lastError' = [error |-> err, call |-> stage]
  /\ rateLimitedKeys' = afterRateLimitError(currentKeyIndex, rateLimitedKeys, now,
                                            Len(geminiApiKeys))
  /\ marked' = {k \in DOMAIN rateLimitedKeys :
                  markKeyAsRateLimited(rateLimitedKeys, now, k) # rateLimitedKeys
                  /\ k = failedKeyIndex(currentKeyIndex, Len(geminiApiKeys))}
  /\ outstanding' = <<>>
  /\ attemptCount' = NextAttempt(attemptCount)
  /\ pc' = "translate"
  /\ UNCHANGED <<logFile, maxMessages, exitCode, error, items, processedIds,
                 ordered, stage, summaries, offset, out, translatedSummaries,
                 translatedFullTweets, i, messageChunks, chunkIndex, obsVars,
                 geminiApiKeys, currentKeyIndex, now, usedKey, cursorBefore,
                 marksBefore, askedAt, requests, groupRequests, failedCalls>>

\* The request fails otherwise (service error, unparseable answer, wrong
\* count): translateChunk rethrows, the batch call returns null
GeminiFailed ==
  /\ pause' = 0
  /\ UNCHANGED slept
  /\ UNCHANGED <<delayObs, fnVars>>
  /\ pc = "translateWait"
  /\ \E err \in GeminiErrors :
       /\ ~isGeminiRateLimitError(err)
       /\ lastError' = [error |-> err, call |-> stage]
  /\ marked' = {}
  /\ outstanding' = <<>>
  /\ TranslateReturns(Fallback(out))
  /\ failedCalls' = failedCalls \cup {stage}
  /\ UNCHANGED <<logFile, maxMessages, exitCode, error, items, processedIds, obsVars,
                 poolVars, usedKey, cursorBefore, marksBefore, askedAt>>

Min(a, b) == IF a < b THEN a ELSE b

\* The entry being sent
Entry == ordered[i + 1]

\* sendDiscordMessage POSTs the content to the webhook (first try or retry)
Post ==
  /\ pause' = -1
  /\ slept' = 0
  /\ retryBody' = NoBody
  /\ waitMs' = -1
  /\ UNCHANGED fnVars
  /\ pc = "post"
  /\ outstanding' = Append(outstanding,
        [to |-> SinkFor(i), body |-> chunkContent(messageChunks, chunkIndex)])
  /\ pc' = "postWait"
  /\ IF sendResult = "pending"
     THEN /\ posts' = Min(posts + 1, Max429 + 1)
          /\ UNCHANGED <<sleeps, tooMany, sendResult, sent>>
     ELSE /\ posts' = 1
          /\ sleeps' = 0
          /\ tooMany' = 0
          /\ sendResult' = "pending"
          /\ sent' = outstanding'[1]
  /\ postedNow' = postedNow \cup {Entry.id}
  /\ TrObsReset
  /\ UNCHANGED <<poolVars, failedCalls>>
  /\ UNCHANGED <<logFile, maxMessages, exitCode, error, items, processedIds,
                 ordered, trVars, translatedSummaries, translatedFullTweets, i,
                 messageChunks, chunkIndex, feed, startFile, writes, lastStatus, got,
                 delivered, postedBefore, owed, repeat>>

\* The pieces 1..n in order
Pieces(n) == [k \in 1..n |-> k]

\* What the observer notes when the sink answers status to the POST in
\* flight: the piece it accepted and, with the last piece, the whole message
Observe(status) ==
  /\ lastStatus' = status
  /\ IF Accepted2xx(status)
     THEN LET body == outstanding[1].body
              n == IF body.parts = 0 THEN 1 ELSE body.parts
              p == IF body.parts = 0 THEN 1 ELSE body.part
          IN  IF Append(got, p) = Pieces(n)
              THEN /\ got' = <<>>
                   /\ delivered' = Append(delivered, Entry.id)
              ELSE /\ got' = Append(got, p)
                   /\ UNCHANGED delivered
     ELSE UNCHANGED <<got, delivered>>

\* Fault: the id of a sent entry is not remembered
CommitNothing(processed, id) == processed

\* processedIds.add(entry.id)
Commit(processed, id) == SetAdd(processed, id)

\* The sink answers 2xx: sendDiscordMessage returns; next chunk, next entry,
\* or the end of the run
PostAccepted ==
  /\ slept' = sleptAfterChunk(chunkIndex, Len(messageChunks), i, Len(ordered))
  /\ UNCHANGED pause
  /\ UNCHANGED <<delayObs, fnVars>>
  /\ pc = "postWait"
  /\ UNCHANGED <<poolVars, trObs, failedCalls>>
  /\ \E status \in SinkStatuses :
       /\ responseOk(status)
       /\ Observe(status)
  /\ outstanding' = <<>>
  /\ sendResult' = "returned"
  /\ IF chunkIndex < Len(messageChunks) - 1
     THEN \* sleep(300)
          /\ chunkIndex' = chunkIndex + 1
          /\ pc' = "post"
          /\ UNCHANGED <<i, messageChunks, processedIds, logFile, writes, exitCode>>
     ELSE /\ processedIds' = Commit(processedIds, Entry.id)
          /\ IF i < Len(ordered) - 1
             THEN \* sleep(450)
                  /\ BeginUnit(ordered, i + 1)
                  /\ UNCHANGED <<logFile, writes, exitCode>>
             ELSE /\ Finish(processedIds')
                  /\ UNCHANGED <<i, messageChunks, chunkIndex>>
  /\ UNCHANGED <<maxMessages, error, items, ordered, trVars, translatedSummaries,
                 translatedFullTweets, feed, startFile, posts, sleeps, tooMany,
                 sent, postedNow, postedBefore, owed, repeat>>

\* Bodies of a 429 answer: not JSON; JSON without retry_after; JSON with
\* retry_after, a number of seconds given here in microseconds
RetryBodies ==
  {[json |-> FALSE, has |-> FALSE, micros |-> 0],
   [json |-> TRUE, has |-> FALSE, micros |-> 0]}
  \cup {[json |-> TRUE, has |-> TRUE, micros |-> m] : m \in {0, 1500, 432000, 2000000}}

\* The body Discord sends as a rule: retry_after of one second
UsualBodies == {[json |-> TRUE, has |-> TRUE, micros |-> 1000000]}

\* Math.ceil(x / d) for x >= 0
Ceil(x, d) == (x + d - 1) \div d

\* Fault: a retry_after of 0 is taken as it is
retryAfterMsNoDefault(body) ==
  IF ~body.json THEN 1000
  ELSE IF ~body.has THEN 1000
  ELSE Ceil(body.micros, 1000)

\* retryAfterMs of the 429 branch: 1000 unless response.json() gives a body,
\* then Math.ceil((Number(body.retry_after) || 1) * 1000)
retryAfterMs(body) ==
  IF ~body.json THEN 1000
  ELSE IF ~body.has \/ body.micros = 0 THEN 1000
  ELSE Ceil(body.micros, 1000)

\* The sink answers 429: sleep(retryAfterMs + 250), then POST again.  With
\* bounded, the sink gives at most Max429 such answers to one call;
\* otherwise the observer's counters stop at Max429.  bodies is what the
\* answer can carry.
PostBackpressure(bounded, bodies) ==
  /\ UNCHANGED paceObs
  /\ pc = "postWait"
  /\ \E body \in bodies :
       /\ retryBody' = body
       /\ waitMs' = retryAfterMs(body) + 250
  /\ UNCHANGED fnVars
  /\ UNCHANGED <<poolVars, trObs, failedCalls>>
  /\ bounded => tooMany < Max429
  /\ \E status \in SinkStatuses :
       /\ ~responseOk(status)
       /\ isBackpressure(status)
       /\ Observe(status)
  /\ outstanding' = <<>>
  /\ tooMany' = Min(tooMany + 1, Max429)
  /\ sleeps' = Min(sleeps + 1, Max429)
  /\ pc' = "post"
  /\ UNCHANGED <<logFile, maxMessages, exitCode, error, items, processedIds,
                 ordered, trVars, translatedSummaries, translatedFullTweets, i,
                 messageChunks, chunkIndex, feed, startFile, writes, posts, sendResult,
                 sent, postedNow, postedBefore, owed, repeat>>

\* The sink answers anything else: sendDiscordMessage throws, run() rejects
PostFatal ==
  /\ UNCHANGED paceObs
  /\ UNCHANGED <<delayObs, fnVars>>
  /\ pc = "postWait"
  /\ UNCHANGED <<poolVars, trObs, failedCalls>>
  /\ \E status \in SinkStatuses :
       /\ ~responseOk(status)
       /\ ~isBackpressure(status)
       /\ Observe(status)
       /\ Abort([from |-> "discord", status |-> status, body |-> "denied"])
  /\ outstanding' = <<>>
  /\ sendResult' = "raised"
  /\ owed' = owed \cup {ordered[k].id : k \in 1..Len(ordered)}
  /\ UNCHANGED <<maxMessages, items, processedIds, ordered, trVars,
                 translatedSummaries, translatedFullTweets, i, messageChunks,
                 chunkIndex, feed, startFile, posts, sleeps, tooMany, sent,
                 postedNow, postedBefore, repeat>>

(***************************************************************************)
(* Specifications                                                          *)
(***************************************************************************)
\* Processes run one after the other and share the log file.
Init == InitFrom({Absent}, MaxMessages, NumKeys) /\ FnIdle

Next ==
  \/ StartRun(MaxMessages, Feeds(MaxMessages + 1))
  \/ Exit
  \/ GeminiRequest
  \/ GeminiGiveUp
  \/ GeminiOk(FALSE)
  \/ GeminiRateLimited
  \/ GeminiFailed
  \/ Post
  \/ PostAccepted
  \/ PostBackpressure(TRUE, UsualBodies)
  \/ PostFatal

Spec == Init /\ [][Next]_vars

\* One process with a longer batch, started on a log file earlier runs left;
\* the model stops when it ends.
BatchFiles ==
  {Absent, JsonFile(<<createMessageId(RecA)>>), JsonFile(<<createMessageId(RecB)>>)}

BatchInit == InitFrom(BatchFiles, BatchMessages, NumKeys) /\ FnIdle

BatchNext ==
  \/ StartRun(BatchMessages, Feeds(BatchMessages))
  \/ GeminiRequest
  \/ GeminiGiveUp
  \/ GeminiOk(FALSE)
  \/ GeminiRateLimited
  \/ GeminiFailed
  \/ Post
  \/ PostAccepted
  \/ PostBackpressure(TRUE, RetryBodies)
  \/ PostFatal

BatchSpec == BatchInit /\ [][BatchNext]_vars

\* Time passes
Tick ==
  /\ UNCHANGED paceObs
  /\ UNCHANGED <<delayObs, fnVars>>
  /\ now < 1 + MaxTicks * TickMs
  /\ now' = now + TickMs
  /\ UNCHANGED <<progVars, obsVars, geminiApiKeys, currentKeyIndex, rateLimitedKeys,
                 trObs, failedCalls>>

\* One process with several keys, followed up to its first POST while time
\* passes: the translation calls and the credential pool.
PoolInit == InitFrom({Absent}, MaxMessages, PoolKeys) /\ FnIdle

PoolNext ==
  \/ StartRun(MaxMessages, Feeds(MaxMessages))
  \/ GeminiRequest
  \/ GeminiGiveUp
  \/ GeminiOk(FALSE)
  \/ GeminiRateLimited
  \/ GeminiFailed
  \/ Tick

PoolSpec == PoolInit /\ [][PoolNext]_vars

\* splitIntoChunks called on its own
CallSplitIntoChunks ==
  /\ UNCHANGED paceObs
  /\ fnPc = "splitIntoChunks"
  /\ chunks' = splitIntoChunks(text, maxLength)
  /\ fnPc' = "split"
  /\ UNCHANGED <<progVars, obsVars, poolVars, trObs, failedCalls, delayObs, text,
                 maxLength, stored, fmtVars>>

ChunkInit ==
  /\ InitFrom({Absent}, MaxMessages, NumKeys)
  /\ fnPc = "splitIntoChunks"
  /\ text \in Texts(MaxTextLen)
  /\ maxLength \in 1..MaxCeiling
  /\ chunks = <<>>
  /\ stored = <<>>
  /\ FmtIdle

ChunkNext == CallSplitIntoChunks

ChunkSpec == ChunkInit /\ [][ChunkNext]_vars

(***************************************************************************)
(* loadProcessedIds and writeProcessedIds called as run() calls them: load *)
(* into a Set, add ids, save, load again, save again                       *)
(***************************************************************************)
\* Ids of four different rows
StoreIds ==
  {createMessageId(RecA), createMessageId(RecB),
   createMessageId([RecA EXCEPT !.time = "09:10"]),
   createMessageId([RecB EXCEPT !.time = "09:15"])}

\* Log files loadProcessedIds answers [] for: none, no text, white space only,
\* one that cannot be read, a text cut short, JSON that is no array
EmptyFile == FileOf(<<>>)
BlankFile == FileOf(<<Space("\n")>>)
Truncated ==
  FileOf(<<Punct("["), Space("\n"), Space("  "), String(createMessageId(RecA))>>)
JsonObject == FileOf(<<Punct("{"), Punct("}"), Space("\n")>>)
JsonString == FileOf(<<String(createMessageId(RecA)), Space("\n")>>)

BadFiles ==
  {Absent, EmptyFile, BlankFile, Unreadable, Truncated, JsonObject, JsonString}

\* Arrays not laid out by writeProcessedIds: on one line, with an id twice
StoreFiles ==
  BadFiles
  \cup {JsonFile(<<createMessageId(RecA)>>),
        FileOf(<<Punct("["), String(createMessageId(RecB)), Punct(","),
                 String(createMessageId(RecA)), Punct("]")>>),
        JsonFile(<<createMessageId(RecA), createMessageId(RecA)>>)}

\* const processedIds = new Set(loadProcessedIds())
CallLoad ==
  /\ UNCHANGED paceObs
  /\ fnPc \in {"load", "reload"}
  /\ processedIds' = NewSet(loadProcessedIds(logFile))
  /\ fnPc' = IF fnPc = "load" THEN "add" ELSE "resave"
  /\ UNCHANGED <<logFile, maxMessages, pc, exitCode, error, items, ordered, stage,
                 summaries, offset, out, attemptCount, translatedSummaries,
                 translatedFullTweets, i, messageChunks, chunkIndex, outstanding,
                 obsVars, poolVars, trObs, failedCalls, delayObs, text, maxLength,
                 chunks, stored, fmtVars>>

\* processedIds.add(id)
AddId ==
  /\ UNCHANGED paceObs
  /\ fnPc = "add"
  /\ Len(processedIds) < MaxIds
  /\ \E id \in StoreIds : processedIds' = SetAdd(processedIds, id)
  /\ UNCHANGED <<logFile, maxMessages, pc, exitCode, error, items, ordered, stage,
                 summaries, offset, out, attemptCount, translatedSummaries,
                 translatedFullTweets, i, messageChunks, chunkIndex, outstanding,
                 obsVars, poolVars, trObs, failedCalls, delayObs, fnVars>>

\* writeProcessedIds(Array.from(processedIds))
CallSave ==
  /\ UNCHANGED paceObs
  /\ fnPc \in {"add", "resave"}
  /\ logFile' = writeProcessedIds(processedIds)
  /\ stored' = IF fnPc = "add" THEN logFile'.text ELSE stored
  /\ fnPc' = IF fnPc = "add" THEN "reload" ELSE "stable"
  /\ UNCHANGED <<maxMessages, pc, exitCode, error, items, processedIds, ordered,
                 stage, summaries, offset, out, attemptCount, translatedSummaries,
                 translatedFullTweets, i, messageChunks, chunkIndex, outstanding,
                 obsVars, poolVars, trObs, failedCalls, delayObs, text, maxLength,
                 chunks, fmtVars>>

StoreInit ==
  /\ InitFrom(StoreFiles, MaxMessages, NumKeys)
  /\ fnPc = "load"
  /\ text = <<>>
  /\ maxLength = 0
  /\ chunks = <<>>
  /\ stored = <<>>
  /\ FmtIdle

StoreNext ==
  \/ CallLoad
  \/ AddId
  \/ CallSave

StoreSpec == StoreInit /\ [][StoreNext]_vars

(***************************************************************************)
(* formatMessage and the chunk loop of run(), on the characters of one     *)
(* item's message                                                          *)
(***************************************************************************)
\* A text of the characters of unit, n times over
Repeat(unit, n) ==
  [k \in 1..(n * Len(unit)) |-> unit[((k - 1) % Len(unit)) + 1]]

\* Values of DISCORD_TAG; the process exits at startup when it is empty
Tags == {<<"@", "h", "e", "r", "e">>, <<"<", "@", "&", "7", ">">>}

\* Full tweets: none, the dashboard's "00", a short one, and long ones made
\* of words, of one unbroken run of letters, and of lines
FullTweets ==
  {<<>>, <<"0", "0">>, <<"b", "u", "y", " ", "n", "o", "w">>,
   Repeat(<<"t", "a", "r", "i", "f", "f", "s", " ">>, 300),
   Repeat(<<"a">>, 2500),
   Repeat(<<"w", "i", "n", " ", "b", "i", "g", "\n">>, 260)}

\* Items formatMessage is called with
FormatItems ==
  {[time |-> <<"0", "9", ":", "0", "0">>, sentiment |-> sentiment,
    summary |-> <<"s", "a">>, fullTweet |-> fullTweet, tickers |-> tickers,
    sector |-> sector] :
     sentiment \in {<<"B", "u", "l", "l", "i", "s", "h">>, <<>>},
     fullTweet \in FullTweets,
     tickers \in {<<>>, << <<"a", "a", "p", "l">>, <<"A", "A", "P", "L">>,
                           <<"n", "o", " ", "g", "o">> >>},
     sector \in {<<>>, Dash, <<"T", "e", "c", "h">>}}

\* const messageChunks = formatMessage(entry.item)
CallFormatMessage ==
  /\ UNCHANGED paceObs
  /\ fnPc = "formatMessage"
  /\ text' = finalMessageOf(entryItem, tag)
  /\ maxLength' = MessageCeiling
  /\ chunks' = formatMessageText(entryItem, tag)
  /\ fnPc' = "send"
  /\ UNCHANGED <<progVars, obsVars, poolVars, trObs, failedCalls, delayObs,
                 stored, fmtVars>>

\* One round of the chunk loop: the content of the next chunk is POSTed
SendChunk ==
  /\ UNCHANGED paceObs
  /\ fnPc = "send"
  /\ contents' = Append(contents, chunkContentText(chunks, Len(contents)))
  /\ fnPc' = IF Len(contents') < Len(chunks) THEN "send" ELSE "sent"
  /\ UNCHANGED <<progVars, obsVars, poolVars, trObs, failedCalls, delayObs,
                 text, maxLength, chunks, stored, tag, entryItem>>

FormatInit ==
  /\ InitFrom({Absent}, MaxMessages, NumKeys)
  /\ fnPc = "formatMessage"
  /\ text = <<>>
  /\ maxLength = 0
  /\ chunks = <<>>
  /\ stored = <<>>
  /\ tag \in Tags
  /\ entryItem \in FormatItems
  /\ contents = <<>>

FormatNext ==
  \/ CallFormatMessage
  \/ SendChunk

FormatSpec == FormatInit /\ [][FormatNext]_vars

(***************************************************************************)
(* One run over rows with different full tweets; the Translation Service   *)
(* may return empty translations                                           *)
(***************************************************************************)
AlignFeeds == UNION {[1..k -> {RecA, RecB, RecC}] : k \in 0..AlignMessages}

AlignInit == InitFrom({Absent}, AlignMessages, NumKeys) /\ FnIdle

AlignNext ==
  \/ StartRun(AlignMessages, AlignFeeds)
  \/ GeminiRequest
  \/ GeminiOk(TRUE)
  \/ GeminiFailed
  \/ Post
  \/ PostAccepted

AlignSpec == AlignInit /\ [][AlignNext]_vars

(***************************************************************************)
(* One run that starts from a log file loadProcessedIds cannot use         *)
(***************************************************************************)
RecoverInit == InitFrom(BadFiles, MaxMessages, NumKeys) /\ FnIdle

RecoverNext ==
  \/ StartRun(MaxMessages, Feeds(MaxMessages))
  \/ GeminiRequest
  \/ GeminiGiveUp
  \/ GeminiOk(FALSE)
  \/ GeminiRateLimited
  \/ GeminiFailed
  \/ Post
  \/ PostAccepted
  \/ PostBackpressure(TRUE, UsualBodies)
  \/ PostFatal

RecoverSpec == RecoverInit /\ [][RecoverNext]_vars

\* Processes whose sinks may answer 429 without end.  Every request is
\* answered and the event loop resumes run() after every answer and timer.
RunStep ==
  \/ GeminiRequest
  \/ GeminiGiveUp
  \/ GeminiOk(FALSE)
  \/ GeminiRateLimited
  \/ GeminiFailed
  \/ Post
  \/ PostAccepted
  \/ PostBackpressure(FALSE, UsualBodies)
  \/ PostFatal

LiveNext ==
  \/ StartRun(MaxMessages, Feeds(MaxMessages + 1))
  \/ Exit
  \/ GeminiRequest
  \/ GeminiGiveUp
  \/ GeminiOk(FALSE)
  \/ GeminiRateLimited
  \/ GeminiFailed
  \/ Post
  \/ PostAccepted
  \/ PostBackpressure(FALSE, UsualBodies)
  \/ PostFatal

LiveSpec == Init /\ [][LiveNext]_vars /\ WF_vars(RunStep)

(***************************************************************************)
(* What the claims speak of                                                *)
(***************************************************************************)
\* The ids a log file holds
IdsIn(file) ==
  LET found == SelectSeq(file.text, LAMBDA tok : tok.t = "string")
      n == Len(found)
      array == [k \in 1..(2 * n + 1)  |->
                  IF k = 1 THEN Punct("[")
                  ELSE IF k = 2 * n + 1 THEN Punct("]")
                  ELSE IF k % 2 = 0 THEN found[k \div 2]
                  ELSE Punct(",")]
      holdsArray ==
        /\ file.exists
        /\ file.readable
        /\ NoSpace(file.text) = (IF n = 0 THEN <<Punct("["), Punct("]")>> ELSE array)
  IN  IF holdsArray THEN {found[k].v : k \in 1..n} ELSE {}

\* The ids of the rows of a scrape
IdsOf(rows) == {createMessageId(rows[k]) : k \in 1..Len(rows)}

\* The ids this run added to the log file
Added == IdsIn(logFile) \ IdsIn(startFile)

\* The rows of the scrape the run evaluates
Evaluated == Slice(feed, 0, maxMessages)

\* The ids of the run's DeliveryUnits in the order the spec asks for: the
\* evaluated rows that are not in the loaded Processed-Set, oldest first
ExpectedIds ==
  LET ids == [k \in 1..Len(Evaluated) |-> createMessageId(Evaluated[k])]
  IN  Reverse(SelectSeq(ids, LAMBDA id : id \notin IdsIn(startFile)))

\* The POSTs that are waiting for their answer
PostsInFlight == {k \in 1..Len(outstanding) : outstanding[k].to # "gemini"}

\* The piece number a POSTed content carries (1 for an unsplit message)
PieceOf(body) == IF body.parts = 0 THEN 1 ELSE body.part

(***************************************************************************)
(* C1  Dedup idempotence: a run that is fed the rows of the previous run,  *)
(* which completed successfully, POSTs nothing to any sink.                *)
(***************************************************************************)
C1_DedupIdempotence ==
  repeat => /\ postedNow = {}
            /\ PostsInFlight = {}
            /\ delivered = <<>>
            /\ pc = "done"

\* The second of two successful runs over the same two rows
C1_Witness ==
  /\ repeat
  /\ pc = "done"
  /\ Len(feed) = 2
  /\ IdsOf(feed) \subseteq IdsIn(startFile)

(***************************************************************************)
(* C2  As claimed: for every run, however it ends, a fingerprint is added  *)
(* to the log file by the run iff every chunk of its message was accepted  *)
(* by its sink during the run.                                             *)
(***************************************************************************)
C2_AddedIffAccepted ==
  Ended => \A id \in IdsOf(feed) : id \in Added <=> id \in Range(delivered)

(***************************************************************************)
(* C2  As amended: a fingerprint is added to the log file by a run iff the *)
(* run completes successfully and every chunk of its message was accepted  *)
(* by its sink during the run; a run that aborts adds none.                *)
(***************************************************************************)
C2_AddedIffAcceptedAndCompleted ==
  Ended => /\ Added \subseteq Range(delivered)
           /\ pc = "done" => Range(delivered) \subseteq Added
           /\ pc = "failed" => Added = {}

\* An aborted run that had a whole message accepted before it aborted
C2_Witness ==
  /\ pc = "failed"
  /\ Len(delivered) > 0
  /\ Added = {}

(***************************************************************************)
(* C3  The log file is written at most once per run, and only after every  *)
(* DeliveryUnit of the run had all its chunks accepted; a run that aborts  *)
(* never writes it, so the file is what it was when the run started.       *)
(***************************************************************************)
C3_SingleCommit ==
  /\ writes <= 1
  /\ writes = 1 => pc = "done" /\ delivered = ExpectedIds /\ got = <<>>
  /\ pc = "failed" => writes = 0 /\ logFile = startFile
  /\ Running => writes = 0 /\ logFile = startFile

\* A run aborted by a sink after a message was accepted, on a file that an
\* earlier run wrote
C3_Witness ==
  /\ pc = "failed"
  /\ error.from = "discord"
  /\ Len(delivered) > 0
  /\ startFile.exists
  /\ logFile = startFile

(***************************************************************************)
(* C4  As claimed: after an aborted run, every record that was new in it   *)
(* and is still returned by the Source Adapter is delivered in full by the *)
(* next run that completes; no record is marked processed without having   *)
(* been delivered in full.                                                 *)
(***************************************************************************)
C4_NeverLost ==
  pc = "done" =>
    /\ \A id \in owed : id \in IdsOf(feed) => id \in Range(delivered)
    /\ Added \subseteq Range(delivered)

(***************************************************************************)
(* C4  As amended: ... and is still among the first MAX_NEWS_MESSAGES rows *)
(* returned by the Source Adapter is delivered in full by the next run     *)
(* that completes; no record is marked processed without having been       *)
(* delivered in full.                                                      *)
(***************************************************************************)
C4_NeverLostWhileEvaluated ==
  pc = "done" =>
    /\ \A id \in owed : id \in IdsOf(Evaluated) => id \in Range(delivered)
    /\ Added \subseteq Range(delivered)

\* A completed run that delivered a record an aborted run owed
C4_Witness ==
  /\ pc = "done"
  /\ owed # {}
  /\ owed \subseteq Range(delivered)
  /\ owed \subseteq Added

(***************************************************************************)
(* C5  As claimed: across runs that share the log file, no record has a    *)
(* chunk POSTed to a sink in more than one run.                            *)
(***************************************************************************)
C5_NeverRedelivered == postedNow \cap postedBefore = {}

(***************************************************************************)
(* C5  As amended: no record whose fingerprint is in the log file when a   *)
(* run starts has a chunk POSTed in that run, and a run that completes     *)
(* leaves in the log file the fingerprint of every record it POSTed and of *)
(* every record the file held: a record POSTed in a completed run is never *)
(* POSTed again (one POSTed in an aborted run is).                         *)
(***************************************************************************)
C5_NeverRedeliveredOnceCommitted ==
  /\ postedNow \cap IdsIn(startFile) = {}
  /\ pc = "done" => postedNow \cup IdsIn(startFile) \subseteq IdsIn(logFile)

\* A run that completes after an aborted one and POSTs a record again,
\* while another record stays in the log file and is not POSTed
C5_Witness ==
  /\ pc = "done"
  /\ postedNow \cap postedBefore # {}
  /\ IdsIn(startFile) \cap IdsOf(feed) # {}

(***************************************************************************)
(* C6  Delivery order: the new DeliveryUnits are delivered oldest first    *)
(* (the reverse of the source order restricted to the unprocessed rows);   *)
(* the chunks of a unit are POSTed in split order; a chunk of the next     *)
(* unit is POSTed only after every chunk of the unit before it has been    *)
(* accepted.  A run that completes has delivered them all and leaves in    *)
(* the log file the loaded ids and theirs, nothing else.                   *)
(***************************************************************************)
C6_DeliveryOrder ==
  /\ delivered = SubSeq(ExpectedIds, 1, Len(delivered))
  /\ got = Pieces(Len(got))
  /\ \A k \in PostsInFlight :
       /\ Len(delivered) < Len(ExpectedIds)
       /\ Entry.id = ExpectedIds[Len(delivered) + 1]
       /\ outstanding[k].body.chunk.item = Entry.item
       /\ outstanding[k].body.chunk.piece = Len(got) + 1
       /\ PieceOf(outstanding[k].body) = Len(got) + 1
  /\ pc = "done" =>
       /\ delivered = ExpectedIds
       /\ IdsIn(logFile) = IdsIn(startFile) \cup Range(ExpectedIds)

\* Source [B, A] on an empty Processed-Set: A then B delivered, and the log
\* file holds exactly their two ids
C6_Witness ==
  /\ pc = "done"
  /\ feed = <<RecB, RecA>>
  /\ startFile = Absent
  /\ delivered = <<createMessageId(RecA), createMessageId(RecB)>>
  /\ IdsIn(logFile) = {createMessageId(RecA), createMessageId(RecB)}

(***************************************************************************)
(* C7  Sink rotation: every POST for the i-th DeliveryUnit of a run        *)
(* (0-based, oldest first), first try or 429-retry, of any of its chunks,  *)
(* goes to sinks[i mod len(sinks)], whatever failed before.                *)
(***************************************************************************)
C7_SinkRotation ==
  \A k \in PostsInFlight :
    outstanding[k].to = webhookUrls[(Len(delivered) % Len(webhookUrls)) + 1]

\* The retry after a 429 of the second chunk of the fourth unit, which wraps
\* around to the first sink, in a run whose translation failed
C7_Witness ==
  /\ PostsInFlight # {}
  /\ Len(delivered) = Len(webhookUrls)
  /\ outstanding[1].to = webhookUrls[1]
  /\ PieceOf(outstanding[1].body) = 2
  /\ tooMany > 0
  /\ translatedSummaries.isNull

(***************************************************************************)
(* C8  Backpressure retry: after a 429 the call neither returns nor        *)
(* raises: it sleeps once and POSTs the identical content to the same      *)
(* sink again, however many 429s came before; a call that returns after k  *)
(* 429s has made exactly k + 1 POSTs and k sleeps.                         *)
(***************************************************************************)
C8_BackpressureRetry ==
  /\ sendResult = "returned" => posts = tooMany + 1 /\ sleeps = tooMany
  /\ lastStatus = 429 =>
       /\ sendResult = "pending"
       /\ error = NoError
       /\ tooMany > 0
       /\ sleeps = tooMany
       /\ pc \in {"post", "postWait"}
       /\ pc = "post" => posts = tooMany
  /\ \A k \in PostsInFlight :
       /\ outstanding[k] = sent
       /\ sendResult = "pending"
       /\ posts = tooMany + 1

\* 429 twice, then 2xx: three POSTs, two sleeps, the call returned
C8_Witness ==
  /\ sendResult = "returned"
  /\ Accepted2xx(lastStatus)
  /\ tooMany = 2
  /\ posts = 3
  /\ sleeps = 2

(***************************************************************************)
(* C9  Fatal send error: an answer that is neither 2xx nor 429 makes       *)
(* sendDiscordMessage raise an error with the status and the body, without *)
(* a retry; the run makes no further POST, does not write the log file,    *)
(* and the process exits with a non-zero code.                             *)
(***************************************************************************)
C9_FatalStatus == lastStatus # 0 /\ ~Accepted2xx(lastStatus) /\ lastStatus # 429

C9_FatalSendError ==
  /\ C9_FatalStatus <=> sendResult = "raised"
  /\ sendResult = "raised" =>
       /\ pc = "failed"
       /\ error = [from |-> "discord", status |-> lastStatus, body |-> "denied"]
       /\ posts = tooMany + 1
       /\ outstanding = <<>>
       /\ Len(delivered) < Len(ExpectedIds)
       /\ writes = 0
       /\ logFile = startFile
       /\ exitCode = 1

\* The second unit's POST is answered 500 after a 429: the first unit was
\* delivered, the log file is untouched
C9_Witness ==
  /\ sendResult = "raised"
  /\ lastStatus = 500
  /\ tooMany = 1
  /\ Len(delivered) = 1
  /\ exitCode = 1

(***************************************************************************)
(* C10  As claimed: every run eventually terminates, by completing or by   *)
(* a fatal error, whatever the sinks and the Translation Service answer.   *)
(***************************************************************************)
C10_Termination == Running ~> Ended

(***************************************************************************)
(* C10  As amended: every run eventually terminates, by completing or by   *)
(* a fatal error, whatever the sinks and the Translation Service answer,   *)
(* unless a sink answers 429 to one sendDiscordMessage call forever.       *)
(***************************************************************************)
C10_TerminationUnless429Forever ==
  (~<>[](sendResult = "pending" /\ tooMany > 0)) => (Running ~> Ended)

\* A run that completed although the Translation Service kept failing with
\* rate-limit errors and a sink answered 429
C10_Witness ==
  /\ pc = "done"
  /\ translatedSummaries.isNull
  /\ tooMany > 0
  /\ Len(delivered) > 0

(***************************************************************************)
(* C11  Translation fallback: a batch call in which a request fails for    *)
(* good, or the attempts run out, in any group, returns null instead of    *)
(* raising; every unit keeps its original text in that field, also the     *)
(* units of the groups translated before the failure; the run delivers the *)
(* same units in the same order, commits the same ids and can end in       *)
(* success: only the dashboard or a sink makes it fail.                    *)
(***************************************************************************)
\* The scraped rows of the run's DeliveryUnits, oldest first
ExpectedRows ==
  Reverse(SelectSeq(Evaluated, LAMBDA row : createMessageId(row) \notin IdsIn(startFile)))

C11_TranslationFallback ==
  /\ "summaries" \in failedCalls =>
       /\ translatedSummaries.isNull
       /\ \A k \in 1..Len(ordered) : ordered[k].item.summary = ExpectedRows[k].summary
  /\ "fullTweets" \in failedCalls =>
       /\ translatedFullTweets.isNull
       /\ \A k \in 1..Len(ordered) : ordered[k].item.fullTweet = ExpectedRows[k].fullTweet
  /\ \A k \in PostsInFlight :
       /\ "summaries" \in failedCalls =>
            outstanding[k].body.chunk.item.summary
              = ExpectedRows[Len(delivered) + 1].summary
       /\ "fullTweets" \in failedCalls =>
            outstanding[k].body.chunk.item.fullTweet
              = ExpectedRows[Len(delivered) + 1].fullTweet
  /\ delivered = SubSeq(ExpectedIds, 1, Len(delivered))
  /\ pc = "done" =>
       /\ delivered = ExpectedIds
       /\ IdsIn(logFile) = IdsIn(startFile) \cup Range(ExpectedIds)
       /\ exitCode = 0
  /\ pc = "failed" => error.from \in {"site", "discord"}

\* A successful run of three units whose summaries call failed in its second
\* group, after the first group had been translated
C11_Witness ==
  /\ pc = "done"
  /\ exitCode = 0
  /\ failedCalls = {"summaries"}
  /\ Len(out) = geminiBatchSize
  /\ Len(delivered) = geminiBatchSize + 1
  /\ delivered = ExpectedIds

(***************************************************************************)
(* C12  Credential acquire: findAvailableKey returns the first key, going  *)
(* round from the cursor, that is not rate-limited at that time, and       *)
(* leaves the cursor just after it; when every key is rate-limited it      *)
(* returns key 0 at once.                                                  *)
(***************************************************************************)
\* The keys that were eligible when findAvailableKey was last called: never
\* marked, or marked at least the cooldown before
EligibleThen ==
  {k \in DOMAIN marksBefore : marksBefore[k] = 0 \/ askedAt - marksBefore[k] >= Cooldown}

\* Steps from the cursor of that call round to key k
StepsFromCursor(k) == (k - cursorBefore + Len(geminiApiKeys)) % Len(geminiApiKeys)

C12_CredentialAcquire ==
  usedKey # -1 =>
    IF EligibleThen = {}
    THEN usedKey = 0
    ELSE /\ usedKey \in EligibleThen
         /\ \A k \in EligibleThen : StepsFromCursor(usedKey) <= StepsFromCursor(k)
         /\ currentKeyIndex = (usedKey + 1) % Len(geminiApiKeys)

\* Three keys, all of them marked and within the cooldown, the cursor on the
\* second: the first key is returned
C12_Witness ==
  /\ Len(geminiApiKeys) = 3
  /\ usedKey = 0
  /\ cursorBefore = 1
  /\ EligibleThen = {}
  /\ pc = "translateWait"

(***************************************************************************)
(* C13  As claimed: the requests made across one whole batch call, over    *)
(* all of its groups, are at most credentialCount * 3.                     *)
(***************************************************************************)
C13_RetryCapPerCall == requests <= Len(geminiApiKeys) * 3

(***************************************************************************)
(* C13  As amended: after a rate-limit error the same group is requested   *)
(* again with a newly acquired key; the requests made for one group are at *)
(* most credentialCount * 3, so a batch call of g groups makes at most     *)
(* g * credentialCount * 3; when a group has used its attempts no further  *)
(* request is made and the batch call fails.                               *)
(***************************************************************************)
\* Number of groups of the running batch call
GroupCount == (Len(summaries) + geminiBatchSize - 1) \div geminiBatchSize

C13_RetryCapPerGroup ==
  /\ groupRequests <= Len(geminiApiKeys) * 3
  /\ requests <= GroupCount * Len(geminiApiKeys) * 3
  /\ pc = "translateWait" =>
       /\ groupRequests = attemptCount + 1
       /\ outstanding = <<[to |-> "gemini", body |-> Group]>>
       /\ usedKey \in 0..(Len(geminiApiKeys) - 1)
  /\ (pc = "translate" /\ groupRequests >= Len(geminiApiKeys) * 3) =>
       ~ENABLED GeminiRequest

\* The last request a batch call of two groups can make: the first group
\* was translated by its last attempt, the second is at its last attempt
C13_Witness ==
  /\ pc = "translateWait"
  /\ GroupCount = 2
  /\ groupRequests = Len(geminiApiKeys) * 3
  /\ requests = 2 * Len(geminiApiKeys) * 3

(***************************************************************************)
(* C14  Service-unavailable errors are never retried: when a request fails *)
(* with status 500 or 503, or with a message containing 'overloaded' or    *)
(* 'service unavailable', no key is marked rate-limited, no further        *)
(* request is made by the batch call, and the batch call returns null.     *)
(***************************************************************************)
\* The error is a service-unavailable error
ServiceUnavailable(err) ==
  \/ err.status \in {500, 503}
  \/ includes(toLowerCase(err.message), <<"overloaded">>)
  \/ includes(toLowerCase(err.message), <<"service", "unavailable">>)

\* The batch call in which the last error happened is still running
ErrorCallRunning == pc \in {"translate", "translateWait"} /\ stage = lastError.call

C14_ServiceErrorNeverRetried ==
  ServiceUnavailable(lastError.error) =>
    /\ marked = {}
    /\ ~ErrorCallRunning
    /\ lastError.call \in failedCalls
    /\ lastError.call = "summaries" => translatedSummaries.isNull
    /\ lastError.call = "fullTweets" => translatedFullTweets.isNull

\* A request failed with status 503 and a message that also names a quota:
\* its key was marked and the group is about to be requested again
C14_Witness ==
  /\ lastError.error = ErrUnavailableQuota
  /\ marked # {}
  /\ pc = "translate"
  /\ ErrorCallRunning
  /\ ENABLED GeminiRequest

\* What holds: a service-unavailable error in which isGeminiRateLimitError
\* finds none of its patterns is never retried
C14_PlainServiceErrorNeverRetried ==
  (ServiceUnavailable(lastError.error) /\ lastError.error \in {ErrOverloaded}) =>
    /\ marked = {}
    /\ ~ErrorCallRunning
    /\ lastError.call \in failedCalls
    /\ lastError.call = "summaries" => translatedSummaries.isNull
    /\ lastError.call = "fullTweets" => translatedFullTweets.isNull

(***************************************************************************)
(* C15  Cooldown: a key marked at time t is not returned by                *)
(* findAvailableKey while now - t < 1 hour, unless every other key is in   *)
(* its cooldown as well; from now - t >= 1 hour on it is eligible again,   *)
(* and its mark is deleted only by the check that finds it old enough.     *)
(***************************************************************************)
\* Key k was within its cooldown when findAvailableKey was last called
CoolingThen(k) == marksBefore[k] # 0 /\ askedAt - marksBefore[k] < 3600000

\* Key k had a mark at least one hour old then
CooledThen(k) == marksBefore[k] # 0 /\ askedAt - marksBefore[k] >= 3600000

ClaimedRetryAfter(body) == IF body.json /\ body.has THEN body.micros ELSE 1000000

C18_RetryDelayExact ==
  waitMs # -1 => (waitMs - 250) * 1000 = ClaimedRetryAfter(retryBody)

(***************************************************************************)
(* C18  As amended: the wait is retry_after * 1000 rounded up to a whole   *)
(* millisecond, plus 250 ms; retry_after is the number given in the body,  *)
(* and 1 when the body cannot be parsed, has no retry_after, or gives 0.   *)
(***************************************************************************)
\* retry_after as the code takes it, in microseconds
TakenRetryAfter(body) ==
  IF body.json /\ body.has /\ body.micros # 0 THEN body.micros ELSE 1000000

C18_RetryDelayRoundedUp ==
  waitMs # -1 =>
    /\ lastStatus = 429
    /\ (waitMs - 250) * 1000 >= TakenRetryAfter(retryBody)
    /\ (waitMs - 250) * 1000 < TakenRetryAfter(retryBody) + 1000

\* A 429 whose body gives retry_after 0: the call waited 1250 ms
C18_Witness ==
  /\ pc = "post"
  /\ lastStatus = 429
  /\ retryBody = [json |-> TRUE, has |-> TRUE, micros |-> 0]
  /\ waitMs = 1250

(***************************************************************************)
(* C16  Chunk-size bound: splitIntoChunks returns at least one chunk, and  *)
(* no chunk is longer than maxLength, for any text and any maxLength >= 1  *)
(* (formatMessage returns splitIntoChunks(finalMessage, 1990)).            *)
(***************************************************************************)
C16_ChunkSizeBound ==
  fnPc = "split" =>
    /\ Len(chunks) >= 1
    /\ \A k \in 1..Len(chunks) : Len(chunks[k]) <= maxLength

\* A text cut right after a newline that sits at index maxLength: the piece
\* cut off has maxLength + 1 characters before it is trimmed
C16_Witness ==
  /\ fnPc = "split"
  /\ maxLength >= 2
  /\ Len(text) > maxLength + 1
  /\ text[maxLength + 1] = "\n"
  /\ Len(chunks) >= 2
  /\ Len(chunks[1]) = maxLength

(***************************************************************************)
(* C17  Chunk reassembly: the chunks, in order, are the text with white    *)
(* space taken out at the ends of the chunks and nowhere else: no other    *)
(* character is lost, duplicated or moved.                                 *)
(***************************************************************************)
\* str is the pieces in order, with nothing but white space before, between
\* and after them
RECURSIVE Reassembles(_, _)
Reassembles(str, pieces) ==
  IF Len(pieces) = 0
  THEN \A k \in 1..Len(str) : IsSpace(str[k])
  ELSE \E gap \in 0..(Len(str) - Len(pieces[1])) :
         /\ \A k \in 1..gap : IsSpace(str[k])
         /\ SubSeq(str, gap + 1, gap + Len(pieces[1])) = pieces[1]
         /\ Reassembles(SubSeq(str, gap + Len(pieces[1]) + 1, Len(str)), Tail(pieces))

RECURSIVE Concat(_)
Concat(pieces) == IF Len(pieces) = 0 THEN <<>> ELSE pieces[1] \o Concat(Tail(pieces))

C17_ChunkReassembly ==
  fnPc = "split" =>
    /\ Reassembles(text, chunks)
    /\ Len(text) <= maxLength => chunks = <<text>>

\* A text of both letters cut in three, with white space lost at a cut
C17_Witness ==
  /\ fnPc = "split"
  /\ Len(chunks) = 3
  /\ Len(Concat(chunks)) < Len(text)
  /\ {"a", "b"} \subseteq Range(Concat(chunks))

\* The ids a text holds as strings, in order
IdsWritten(tokens) ==
  LET found == SelectSeq(tokens, LAMBDA tok : tok.t = "string")
  IN  [k \in 1..Len(found) |-> found[k].v]

\* C19: a processed set saved, loaded again and saved again leaves the file
\* content of the first save: the same ids in the same order in the same
\* layout, and the set loaded in between is the set that was saved.
C19_StateRoundTrip ==
  /\ fnPc = "resave" => processedIds = IdsWritten(stored)
  /\ fnPc = "stable" =>
       /\ logFile.text = stored
       /\ logFile = JsonFile(processedIds)
       /\ IdsWritten(logFile.text) = processedIds

\* A set of three ids went through save, load, save
C19_Witness ==
  /\ fnPc = "stable"
  /\ Len(processedIds) = 3
  /\ Len(stored) > 3
  /\ logFile.text = stored

\* The rows the run evaluates, oldest first: what it sends when all are new
AllNewIds ==
  Reverse([k \in 1..Len(Evaluated) |-> createMessageId(Evaluated[k])])

\* The run has read the dashboard
RowsRead == pc # "idle" /\ error.from # "site"

\* C20: started from a log file that is absent, empty, unreadable, not JSON
\* or JSON that is not an array, the run takes the processed set for empty:
\* it goes on, every evaluated row is new and is sent, a run that ends well
\* logs exactly the evaluated rows, and a run that fails fails by the
\* dashboard or a sink, never by the log file.
C20_LoadFailsSoft ==
  /\ startFile \in BadFiles
  /\ RowsRead =>
       /\ [k \in 1..Len(ordered) |-> ordered[k].id] = AllNewIds
       /\ \E n \in 0..Len(AllNewIds) : delivered = SubSeq(AllNewIds, 1, n)
  /\ pc = "done" =>
       /\ exitCode = 0
       /\ delivered = AllNewIds
       /\ logFile = JsonFile(NewSet(AllNewIds))
  /\ pc = "failed" => error.from \in {"site", "discord"}

\* A run that found a log file cut short, holding the id of a row the page
\* shows, sent that row and ended well
C20_Witness ==
  /\ startFile = Truncated
  /\ pc = "done"
  /\ createMessageId(RecA) \in Range(delivered)
  /\ logFile # startFile

(***************************************************************************)
(* C21  MAX_NEWS_MESSAGES bounds a run: only the first MAX_NEWS_MESSAGES   *)
(* rows of the newest-first sequence are evaluated, so a run queues and    *)
(* delivers at most that many units, POSTs for no row beyond them, and     *)
(* adds at most that many ids to the log file.                             *)
(***************************************************************************)
C21_RunBound ==
  /\ Len(ordered) <= maxMessages
  /\ Len(delivered) <= maxMessages
  /\ Cardinality(Added) <= maxMessages
  /\ RowsRead =>
       /\ {ordered[k].id : k \in 1..Len(ordered)} \subseteq IdsOf(Evaluated)
       /\ postedNow \subseteq IdsOf(Evaluated)
       /\ Added \subseteq IdsOf(Evaluated)

\* The page showed one row more than MAX_NEWS_MESSAGES, a row not among the
\* first ones and not in the log; the run delivered MAX_NEWS_MESSAGES units
\* and ended well without it
C21_Witness ==
  /\ pc = "done"
  /\ Len(feed) = maxMessages + 1
  /\ createMessageId(feed[Len(feed)]) \notin IdsOf(Evaluated) \cup IdsIn(startFile)
  /\ Len(delivered) = maxMessages
  /\ createMessageId(feed[Len(feed)]) \notin IdsIn(logFile)

\* str begins with, ends with prefix
StartsWith(str, prefix) ==
  Len(str) >= Len(prefix) /\ SubSeq(str, 1, Len(prefix)) = prefix

EndsWith(str, suffix) ==
  /\ Len(str) >= Len(suffix)
  /\ SubSeq(str, Len(str) - Len(suffix) + 1, Len(str)) = suffix

(***************************************************************************)
(* C22  As claimed: the content of every message POSTed to a webhook       *)
(* starts with the text of DISCORD_TAG.                                    *)
(***************************************************************************)
C22_TagPrepended ==
  \A k \in 1..Len(contents) : StartsWith(contents[k], tag)

\* A message was sent whole with the tag as its last line: no content
\* starts with the tag, the last one ends with it
C22_Witness ==
  /\ fnPc = "sent"
  /\ Len(contents) > 1
  /\ \A k \in 1..Len(contents) : ~StartsWith(contents[k], tag)
  /\ EndsWith(contents[Len(contents)], <<"\n">> \o tag)

\* The batch call for the texts of the given stage is over: it returned one
\* translation per text, or it fell back
CallOver(stg, result, texts) ==
  IF result.isNull THEN stg \in failedCalls ELSE Len(result.v) = Len(texts)

(***************************************************************************)
(* C23  Strictly sequential pipeline: at every moment of a run at most one *)
(* request to a sink or to the Translation Service is outstanding, and it  *)
(* is the one the run waits for; no POST to a sink is issued while a       *)
(* translation batch call is running, and when the first POST is issued    *)
(* the summaries call and, if any unit has a full tweet, the full-tweets   *)
(* call have both returned or fallen back.                                 *)
(***************************************************************************)
C23_StrictlySequential ==
  /\ Len(outstanding) <= 1
  /\ pc = "translateWait" <=> (Len(outstanding) = 1 /\ outstanding[1].to = "gemini")
  /\ pc = "postWait" <=> (Len(outstanding) = 1 /\ outstanding[1].to # "gemini")
  /\ pc \in {"translate", "translateWait"} =>
       /\ postedNow = {}
       /\ sendResult = "none"
       /\ delivered = <<>>
  /\ pc \in {"post", "postWait"} =>
       /\ CallOver("summaries", translatedSummaries, ordered)
       /\ FullTweetsOf(ordered) # <<>> =>
            /\ stage = "fullTweets"
            /\ CallOver("fullTweets", translatedFullTweets, FullTweetsOf(ordered))

\* The first POST of a run is outstanding; the summaries call took two
\* groups and the full-tweets call fell back before it
C23_Witness ==
  /\ pc = "postWait"
  /\ delivered = <<>>
  /\ Len(ordered) > geminiBatchSize
  /\ ~translatedSummaries.isNull
  /\ translatedFullTweets.isNull
  /\ "fullTweets" \in failedCalls
  /\ Len(outstanding) = 1

\* The run is about to request a batch that is not the first of the run and
\* not the retry of a batch
NextBatchDue ==
  /\ pc = "translate"
  /\ attemptCount = 0
  /\ offset > 0 \/ stage = "fullTweets"

(***************************************************************************)
(* C24  As claimed: between any two successive translation batches of a    *)
(* run, the last summaries batch followed by the first full-tweets batch   *)
(* included, the inter-batch delay elapses before the later batch is       *)
(* requested.                                                              *)
(***************************************************************************)
C24_InterBatchDelay == NextBatchDue => pause >= geminiMinDelayMs

\* The summaries call returned its translations and the first full-tweets
\* batch is due with no sleep since
C24_Witness ==
  /\ NextBatchDue
  /\ stage = "fullTweets"
  /\ offset = 0
  /\ ~translatedSummaries.isNull
  /\ pause = 0
  /\ ENABLED GeminiRequest

\* Within one batch call the delay elapses between its groups
C24_DelayWithinCall == (NextBatchDue /\ offset > 0) => pause = geminiMinDelayMs

(***************************************************************************)
(* C25  Send pacing: when a POST follows an accepted POST of the run, the  *)
(* send loop has slept 300 ms if both are chunks of the same message and   *)
(* 450 ms if the later one is the first chunk of the next message; after   *)
(* the last chunk of the last message it does not sleep; the first POST of *)
(* a run and the retry of a POST follow no such sleep.                     *)
(***************************************************************************)
C25_SendPacing ==
  /\ (pc = "post" /\ sendResult = "returned") =>
       slept = IF chunkIndex > 0 THEN 300 ELSE 450
  /\ (pc = "post" /\ sendResult # "returned") => slept = 0
  /\ pc = "done" => slept = 0

\* The second chunk of the second message of a run is due, 300 ms after the
\* first chunk was accepted
C25_Witness ==
  /\ pc = "post"
  /\ sendResult = "returned"
  /\ i = 1
  /\ chunkIndex = 1
  /\ slept = 300
  /\ Len(delivered) = 1

\* The entries of the run as they were queued, before translation
Queued == Reverse(Evaluated)

\* What a text became: the text itself after a fallback, else the returned
\* translation of that very text, or the text again where that was empty
Became(new, old, result, idx) ==
  IF result.isNull THEN new = old
  ELSE /\ idx + 1 \in DOMAIN result.v
       /\ result.v[idx + 1] \in {"", Translated(old)}
       /\ new = (IF result.v[idx + 1] = "" THEN old ELSE Translated(old))

(***************************************************************************)
(* C26  Translation alignment: a batch call that succeeds returns one      *)
(* translation per input text, in input order, so unit k gets the          *)
(* translation of its own summary, and the j-th full-tweet translation     *)
(* goes to the j-th unit, in delivery order, that has a full tweet; a unit *)
(* without full tweet keeps none, an empty translation leaves the original *)
(* text, and nothing else of the unit changes.                             *)
(***************************************************************************)
C26_TranslationAlignment ==
  pc \in {"post", "postWait", "done"} =>
    /\ Len(ordered) = Len(Queued)
    /\ ~translatedSummaries.isNull => Len(translatedSummaries.v) = Len(Queued)
    /\ ~translatedFullTweets.isNull =>
         Len(translatedFullTweets.v)
           = Cardinality({k \in 1..Len(Queued) : Queued[k].fullTweet # ""})
    /\ \A k \in 1..Len(Queued) :
         LET old == Queued[k]
             new == ordered[k].item
             j == Cardinality({h \in 1..(k - 1) : Queued[h].fullTweet # ""})
         IN  /\ Became(new.summary, old.summary, translatedSummaries, k - 1)
             /\ IF old.fullTweet = "" THEN new.fullTweet = ""
                ELSE Became(new.fullTweet, old.fullTweet, translatedFullTweets, j)
             /\ [new EXCEPT !.summary = old.summary, !.fullTweet = old.fullTweet]
                  = old

\* Three units, the first without full tweet: the second full-tweet
\* translation went to the third unit, the first was empty and left the
\* second unit's text, one summary translation was empty
C26_Witness ==
  /\ pc = "done"
  /\ Len(ordered) = 3
  /\ Queued[1].fullTweet = ""
  /\ Queued[2].fullTweet # Queued[3].fullTweet
  /\ ~translatedFullTweets.isNull
  /\ translatedFullTweets.v[1] = ""
  /\ ordered[2].item.fullTweet = Queued[2].fullTweet
  /\ ordered[3].item.fullTweet = Translated(Queued[3].fullTweet)
  /\ ~translatedSummaries.isNull
  /\ \E k \in 1..3 : translatedSummaries.v[k] = ""

\* The last request of the run failed with a rate-limit error and the retry
\* has not been sent yet
RateLimitJustHandled ==
  /\ usedKey # -1
  /\ pc = "translate"
  /\ attemptCount > 0

(***************************************************************************)
(* C27  Rotation cursor invariant: the cursor is always within             *)
(* 0..credentialCount-1; after findAvailableKey returned key k the cursor  *)
(* is (k+1) mod credentialCount, also when all keys are rate-limited and   *)
(* key 0 is returned; so the key translateChunk marks after a rate-limit   *)
(* error, (cursor-1) mod credentialCount, is the key the failed request    *)
(* used, no other key is marked, and that key is rate-limited afterwards.  *)
(***************************************************************************)
C27_RotationCursor ==
  LET n == Len(geminiApiKeys)
  IN  /\ currentKeyIndex \in 0..(n - 1)
      /\ usedKey # -1 =>
           /\ usedKey \in 0..(n - 1)
           /\ currentKeyIndex = (usedKey + 1) % n
           /\ (currentKeyIndex + n - 1) % n = usedKey
      /\ RateLimitJustHandled =>
           /\ marked \subseteq {usedKey}
           /\ rateLimitedKeys[usedKey] # 0
           /\ \A k \in DOMAIN rateLimitedKeys :
                (k # usedKey /\ marksBefore[k] = 0) => rateLimitedKeys[k] = 0

\* All three keys were rate-limited, so key 0 was used with the cursor left
\* on key 1; the request failed with a rate-limit error
C27_Witness ==
  /\ RateLimitJustHandled
  /\ Len(geminiApiKeys) = 3
  /\ EligibleThen = {}
  /\ cursorBefore = 2
  /\ usedKey = 0
  /\ currentKeyIndex = 1
  /\ marked = {}

(***************************************************************************)
(* C28  As claimed: when the page shows two rows with the same field       *)
(* values, so with the same id, at most one message is sent for that id in *)
(* the run: no id is queued twice and none is delivered twice.             *)
(***************************************************************************)
C28_NoDuplicateInRun ==
  /\ \A a, b \in 1..Len(ordered) : ordered[a].id = ordered[b].id => a = b
  /\ \A a, b \in 1..Len(delivered) : delivered[a] = delivered[b] => a = b

\* The page showed the same row twice, the log held nothing, and the run
\* ended well having delivered the id twice
C28_Witness ==
  /\ pc = "done"
  /\ Len(Evaluated) = 2
  /\ Evaluated[1] = Evaluated[2]
  /\ IdsIn(startFile) = {}
  /\ delivered = <<createMessageId(Evaluated[1]), createMessageId(Evaluated[1])>>
  /\ IdsIn(logFile) = {createMessageId(Evaluated[1])}

\* A Set after its add was called with each of ids in turn
RECURSIVE AddAll(_, _)
AddAll(set, ids) ==
  IF Len(ids) = 0 THEN set ELSE AddAll(SetAdd(set, ids[1]), Tail(ids))

(***************************************************************************)
(* C29  Fingerprints are independent of translation: the id of a queued    *)
(* unit is the id of its row as scraped, whatever translation did to its   *)
(* summary and full tweet, so the file a run writes is determined by the   *)
(* file it started from and the rows it evaluated: runs over the same rows *)
(* that differ in the outcome of translation write the same file.          *)
(***************************************************************************)
C29_IdsIndependentOfTranslation ==
  /\ RowsRead => [k \in 1..Len(ordered) |-> ordered[k].id] = ExpectedIds
  /\ Range(delivered) \subseteq IdsOf(Evaluated)
  /\ pc = "done" =>
       logFile = JsonFile(AddAll(NewSet(loadProcessedIds(startFile)), ExpectedIds))

\* A run ended well after one batch call translated and the other fell
\* back: the item of a unit no longer gives the id the unit was logged with
C29_Witness ==
  /\ pc = "done"
  /\ Len(ordered) >= 2
  /\ ~translatedSummaries.isNull
  /\ translatedFullTweets.isNull
  /\ "fullTweets" \in failedCalls
  /\ \A k \in 1..Len(ordered) :
       /\ createMessageId(ordered[k].item) # ordered[k].id
       /\ createMessageId(ordered[k].item) \notin IdsIn(logFile)
       /\ ordered[k].id \in IdsIn(logFile)

(***************************************************************************)
(* C30  As claimed: every content POSTed to a sink, the Part marker put    *)
(* before each chunk of a split message included, is at most 1990          *)
(* characters long.                                                        *)
(***************************************************************************)
C30_PostedContentBound ==
  \A k \in 1..Len(contents) : Len(contents[k]) <= MessageCeiling

\* A split message was sent whole; its first chunk filled the ceiling and
\* went out with the marker before it, longer than the ceiling
C30_Witness ==
  /\ fnPc = "sent"
  /\ Len(chunks) = 2
  /\ Len(chunks[1]) = MessageCeiling
  /\ contents[1] = PartMarker(1, 2) \o chunks[1]
  /\ Len(contents[1]) = MessageCeiling + 15

\* The chunks formatMessage returns are within the ceiling
C30_ChunksWithinCeiling ==
  \A k \in 1..Len(chunks) : Len(chunks[k]) <= MessageCeiling

====
